---------------------------- MODULE Spec2Model ----------------------------
(***************************************************************************)
(* Verification model of the RV32I oracle tools of Han_OoO:                *)
(*   sw/rv32i_tests_gen.py  - instruction codec, decoder, golden simulator *)
(*   test/trace_diff.py     - commit trace comparator                      *)
(*   test/check_redirect.py - redirect latency validator                   *)
(*                                                                         *)
(* Python integers are unbounded; TLC integers are 32-bit signed.  Every   *)
(* Python integer of the simulator is therefore kept as a pair <<hi, lo>>  *)
(* standing for hi * 2^16 + lo with lo in 0..65535 and hi any integer      *)
(* (negative for negative numbers, as in an infinite two's complement).    *)
(***************************************************************************)
EXTENDS Integers, Sequences, FiniteSets, TLC

VARIABLES
    \* ---- golden simulator (sw/rv32i_tests_gen.py) ----
    words,          \* program image, one 32-bit word per slot
    meta,           \* decoded metadata aligned with words
    asm,            \* disassembly text aligned with words
    max_steps,      \* caller-supplied step budget
    regs,           \* register file, 32 slots
    mem,            \* sparse byte memory: address -> byte
    pc,             \* program counter (a Python int)
    cycle,          \* step counter
    commit_trace,   \* list of CommitEntry
    sim_state,      \* "running" | "returned" | "raised"
    sim_error,      \* which RuntimeError was raised ("" when none)
    warned,         \* the max_steps warning was printed
    ret,            \* what the call returned ("None" until it returns)
    \* ---- trace comparator (test/trace_diff.py) ----
    gold,           \* parsed golden records
    sim,            \* parsed hardware commit records
    radius,         \* --radius argument
    diff_state,     \* "start" | "done"
    diff_i,         \* result of diff_first: <<>> for None, <<i>> for index i
    report,         \* "" | "match" | "ended_early" | "mismatch"
    window,         \* indices printed by show_window
    \* ---- redirect validator (test/check_redirect.py) ----
    log,            \* lines of the fetch trace
    ln,             \* number of lines consumed so far
    pend,           \* Optional[Pending]: <<>> or <<[tgt, budget]>>
    total_uops,
    redirects,
    rc,             \* exit status: <<>> while scanning, then <<0>>, <<1>>, <<2>>
    msg,            \* the line printed on exit, as the pieces it formats
    \* ---- one call of a pure function (codec, decode tables, branch unit) ----
    call,           \* the function applied and its arguments
    result,         \* what the calls made so far returned
    \* ---- decode validator (test/check_log.py) ----
    mem_hex,        \* load_hex: pc -> word
    trace,          \* lines of fetch_trace.log, as their key=value tokens
    pos,            \* number of lines consumed so far
    bad,
    seen,
    skipped_parse,
    skipped_not_in_hex,
    cl_state,       \* "scanning" | "done" | "raised"
    summary         \* the final line printed, as the pieces it formats

simVars   == <<words, meta, asm, max_steps, regs, mem, pc, cycle,
               commit_trace, sim_state, sim_error, warned, ret>>
diffVars  == <<gold, sim, radius, diff_state, diff_i, report, window>>
redirVars == <<log, ln, pend, total_uops, redirects, rc, msg>>
callVars  == <<call, result>>
logVars   == <<mem_hex, trace, pos, bad, seen, skipped_parse,
               skipped_not_in_hex, cl_state, summary>>
vars      == <<simVars, diffVars, redirVars, callVars, logVars>>

None == "None"

\* an Optional[int]: None is the empty tuple, the integer i the tuple <<i>>
NoneI == <<>>
Some(i) == <<i>>

-----------------------------------------------------------------------------
(***************************************************************************)
(* Python integer arithmetic on <<hi, lo>> pairs.                          *)
(***************************************************************************)
Limb == 2^16

Z(n) == <<n \div Limb, n % Limb>>          \* a small integer as a pair
Norm(hi, lo) == <<hi + (lo \div Limb), lo % Limb>>
Hi(a) == a[1]
Lo(a) == a[2]
ZERO == <<0, 0>>

AddZ(a, b) == Norm(a[1] + b[1], a[2] + b[2])
SubZ(a, b) == Norm(a[1] - b[1], a[2] - b[2])
LtZ(a, b)  == a[1] < b[1] \/ (a[1] = b[1] /\ a[2] < b[2])
GeZ(a, b)  == ~LtZ(a, b)

\* bitwise operators of Python on integers of any sign
RECURSIVE BitAndI(_, _)
BitAndI(a, b) ==
    IF a = 0 \/ b = 0 THEN 0
    ELSE IF a = -1 THEN b
    ELSE IF b = -1 THEN a
    ELSE (a % 2) * (b % 2) + 2 * BitAndI(a \div 2, b \div 2)

RECURSIVE BitOrI(_, _)
BitOrI(a, b) ==
    IF a = 0 THEN b
    ELSE IF b = 0 THEN a
    ELSE IF a = -1 \/ b = -1 THEN -1
    ELSE (IF a % 2 = 1 \/ b % 2 = 1 THEN 1 ELSE 0) + 2 * BitOrI(a \div 2, b \div 2)

RECURSIVE BitXorI(_, _)
BitXorI(a, b) ==
    IF a = 0 THEN b
    ELSE IF b = 0 THEN a
    ELSE IF a = -1 THEN -1 - b
    ELSE IF b = -1 THEN -1 - a
    ELSE (((a % 2) + (b % 2)) % 2) + 2 * BitXorI(a \div 2, b \div 2)

AndZ(a, b) == <<BitAndI(a[1], b[1]), BitAndI(a[2], b[2])>>
OrZ(a, b)  == <<BitOrI(a[1], b[1]),  BitOrI(a[2], b[2])>>
XorZ(a, b) == <<BitXorI(a[1], b[1]), BitXorI(a[2], b[2])>>

\* a >> k (Python: arithmetic, floor) for 0 <= k <= 31
RECURSIVE ShrZ(_, _)
ShrZ(a, k) ==
    IF k >= 16 THEN ShrZ(<<a[1] \div Limb, a[1] % Limb>>, k - 16)
    ELSE <<a[1] \div (2^k), (a[2] \div (2^k)) + (a[1] % (2^k)) * (2^(16 - k))>>

\* a << k, exact (the operand is small enough for the result to fit a pair)
RECURSIVE ShlZ(_, _)
ShlZ(a, k) ==
    IF k >= 16 THEN ShlZ(<<a[1] * Limb + a[2], 0>>, k - 16)
    ELSE Norm(a[1] * (2^k), a[2] * (2^k))

\* n & ((1 << bits) - 1)
MaskZ(n, bits) ==
    IF bits <= 16 THEN <<0, n[2] % (2^bits)>>
    ELSE <<n[1] % (2^(bits - 16)), n[2]>>

\* (inst >> sh) & ((1 << width) - 1), as a plain integer (width <= 16)
Bits(inst, sh, width) == Lo(MaskZ(ShrZ(inst, sh), width))

\* a reduction that keeps every bit of the unbounded integer
u32_NoWrap(x) == x

\* u32(x) = x & 0xFFFFFFFF
u32(x) == MaskZ(x, 32)

\* a reading of the 32 bits that never yields a negative number
s32_Unsigned(x) == MaskZ(x, 32)

\* s32(x): the same 32 bits read as two's complement
s32(x) ==
    LET y == u32(x)
    IN  IF BitAndI(y[1], 32768) # 0 THEN SubZ(y, <<Limb, 0>>) ELSE y

\* an extension that always takes bit 11 as the sign
sext_FromBit11(val, bits) ==
    LET v == MaskZ(val, bits)
    IN  IF BitAndI(v[2], 2048) # 0 THEN SubZ(v, Z(4096)) ELSE v

\* an extension that fills the upper bits with zeros
sext_ZeroExtend(val, bits) == MaskZ(val, bits)

\* sext(val, bits) = ((val & mask) ^ sign) - sign
sext(val, bits) ==
    LET sign == ShlZ(Z(1), bits - 1)
        v    == MaskZ(val, bits)
    IN  SubZ(XorZ(v, sign), sign)

\* u32(a << k) for 0 <= k <= 31.  Python shifts the unbounded integer and
\* masks afterwards; the bits above 32 - k never reach the result, so they
\* are dropped before the shift to keep the intermediate value in range.
Sll32(a, k) == ShlZ(MaskZ(a, 32 - k), k)

-----------------------------------------------------------------------------
(***************************************************************************)
(* Instruction encoders (sw/rv32i_tests_gen.py lines 10-147).  Register,   *)
(* opcode and funct arguments are plain integers, immediates are pairs.    *)
(***************************************************************************)
mask(n, bits) == MaskZ(n, bits)

encode_R(opcode, rd, funct3, rs1, rs2, funct7) ==
    OrZ(ShlZ(mask(Z(funct7), 7), 25),
    OrZ(ShlZ(mask(Z(rs2), 5), 20),
    OrZ(ShlZ(mask(Z(rs1), 5), 15),
    OrZ(ShlZ(mask(Z(funct3), 3), 12),
    OrZ(ShlZ(mask(Z(rd), 5), 7),
        mask(Z(opcode), 7))))))

encode_I(opcode, rd, funct3, rs1, imm) ==
    LET imm12 == mask(imm, 12)
    IN  OrZ(ShlZ(imm12, 20),
        OrZ(ShlZ(mask(Z(rs1), 5), 15),
        OrZ(ShlZ(mask(Z(funct3), 3), 12),
        OrZ(ShlZ(mask(Z(rd), 5), 7),
            mask(Z(opcode), 7)))))

encode_U(opcode, rd, imm20) ==
    OrZ(ShlZ(mask(imm20, 20), 12),
    OrZ(ShlZ(mask(Z(rd), 5), 7),
        mask(Z(opcode), 7)))

encode_B(opcode, funct3, rs1, rs2, imm13) ==
    LET imm      == mask(imm13, 13)
        imm_12   == MaskZ(ShrZ(imm, 12), 1)
        imm_10_5 == MaskZ(ShrZ(imm, 5), 6)
        imm_4_1  == MaskZ(ShrZ(imm, 1), 4)
        imm_11   == MaskZ(ShrZ(imm, 11), 1)
    IN  OrZ(ShlZ(imm_12, 31),
        OrZ(ShlZ(imm_10_5, 25),
        OrZ(ShlZ(mask(Z(rs2), 5), 20),
        OrZ(ShlZ(mask(Z(rs1), 5), 15),
        OrZ(ShlZ(mask(Z(funct3), 3), 12),
        OrZ(ShlZ(imm_4_1, 8),
        OrZ(ShlZ(imm_11, 7),
            mask(Z(opcode), 7))))))))

encode_J(opcode, rd, imm21) ==
    LET imm       == mask(imm21, 21)
        imm_20    == MaskZ(ShrZ(imm, 20), 1)
        imm_10_1  == MaskZ(ShrZ(imm, 1), 10)
        imm_11    == MaskZ(ShrZ(imm, 11), 1)
        imm_19_12 == MaskZ(ShrZ(imm, 12), 8)
    IN  OrZ(ShlZ(imm_20, 31),
        OrZ(ShlZ(imm_10_1, 21),
        OrZ(ShlZ(imm_11, 20),
        OrZ(ShlZ(imm_19_12, 12),
        OrZ(ShlZ(mask(Z(rd), 5), 7),
            mask(Z(opcode), 7))))))

encode_S(opcode, funct3, rs1, rs2, imm12) ==
    LET imm      == mask(imm12, 12)
        imm_11_5 == MaskZ(ShrZ(imm, 5), 7)
        imm_4_0  == MaskZ(imm, 5)
    IN  OrZ(ShlZ(imm_11_5, 25),
        OrZ(ShlZ(mask(Z(rs2), 5), 20),
        OrZ(ShlZ(mask(Z(rs1), 5), 15),
        OrZ(ShlZ(mask(Z(funct3), 3), 12),
        OrZ(ShlZ(imm_4_0, 7),
            mask(Z(opcode), 7))))))

NOP == encode_I(19, 0, 0, 0, Z(0))
LUI(rd, imm20)        == encode_U(55, rd, Z(imm20))
AUIPC(rd, imm20)      == encode_U(23, rd, Z(imm20))
ADDI(rd, rs1, imm)    == encode_I(19, rd, 0, rs1, Z(imm))
ANDI(rd, rs1, imm)    == encode_I(19, rd, 7, rs1, Z(imm))
SLLI(rd, rs1, sh)     == encode_I(19, rd, 1, rs1, Z(sh))
SRLI(rd, rs1, sh)     == encode_I(19, rd, 5, rs1, Z(sh))
ADD(rd, rs1, rs2)     == encode_R(51, rd, 0, rs1, rs2, 0)
SUB(rd, rs1, rs2)     == encode_R(51, rd, 0, rs1, rs2, 32)
BEQ(rs1, rs2, imm)    == encode_B(99, 0, rs1, rs2, Z(imm))
BNE(rs1, rs2, imm)    == encode_B(99, 1, rs1, rs2, Z(imm))
JAL(rd, imm)          == encode_J(111, rd, Z(imm))
JALR(rd, rs1, imm)    == encode_I(103, rd, 0, rs1, Z(imm))
SB(rs2, rs1, imm)     == encode_S(35, 0, rs1, rs2, Z(imm))
SH(rs2, rs1, imm)     == encode_S(35, 1, rs1, rs2, Z(imm))
SW(rs2, rs1, imm)     == encode_S(35, 2, rs1, rs2, Z(imm))
LB(rd, rs1, imm)      == encode_I(3, rd, 0, rs1, Z(imm))
LW(rd, rs1, imm)      == encode_I(3, rd, 2, rs1, Z(imm))
XORI(rd, rs1, imm)    == encode_I(19, rd, 4, rs1, Z(imm))
ORI(rd, rs1, imm)     == encode_I(19, rd, 6, rs1, Z(imm))
SLTU(rd, rs1, rs2)    == encode_R(51, rd, 3, rs1, rs2, 0)
XOR(rd, rs1, rs2)     == encode_R(51, rd, 4, rs1, rs2, 0)
OR(rd, rs1, rs2)      == encode_R(51, rd, 6, rs1, rs2, 0)
AND(rd, rs1, rs2)     == encode_R(51, rd, 7, rs1, rs2, 0)

\* lines 82-93: the patchers finalize applies to a placeholder word
patch_B(word, imm13) ==
    encode_B(Bits(word, 0, 7), Bits(word, 12, 3), Bits(word, 15, 5),
             Bits(word, 20, 5), imm13)
patch_J(word, imm21) == encode_J(Bits(word, 0, 7), Bits(word, 7, 5), imm21)

-----------------------------------------------------------------------------
(***************************************************************************)
(* Decoder (sw/rv32i_tests_gen.py lines 180-318).                          *)
(***************************************************************************)
imm_i(inst) == sext(ShrZ(inst, 20), 12)

imm_s(inst) ==
    LET imm == OrZ(ShlZ(ShrZ(inst, 25), 5), MaskZ(ShrZ(inst, 7), 5))
    IN  sext(imm, 12)

\* a B immediate assembled without the sign extension
imm_b_Unsigned(inst) ==
    OrZ(ShlZ(MaskZ(ShrZ(inst, 31), 1), 12),
    OrZ(ShlZ(MaskZ(ShrZ(inst, 7), 1), 11),
    OrZ(ShlZ(MaskZ(ShrZ(inst, 25), 6), 5),
        ShlZ(MaskZ(ShrZ(inst, 8), 4), 1))))

imm_b(inst) ==
    LET imm == OrZ(ShlZ(MaskZ(ShrZ(inst, 31), 1), 12),
               OrZ(ShlZ(MaskZ(ShrZ(inst, 7), 1), 11),
               OrZ(ShlZ(MaskZ(ShrZ(inst, 25), 6), 5),
                   ShlZ(MaskZ(ShrZ(inst, 8), 4), 1))))
    IN  sext(imm, 13)

imm_u(inst) == AndZ(inst, <<65535, 61440>>)      \* inst & 0xFFFFF000

imm_j(inst) ==
    LET imm == OrZ(ShlZ(MaskZ(ShrZ(inst, 31), 1), 20),
               OrZ(ShlZ(MaskZ(ShrZ(inst, 12), 8), 12),
               OrZ(ShlZ(MaskZ(ShrZ(inst, 20), 1), 11),
                   ShlZ(MaskZ(ShrZ(inst, 21), 10), 1))))
    IN  sext(imm, 21)

\* dataclass Meta
Meta(op, rd, rs1, rs2, imm, target_pc) ==
    [op |-> op, rd |-> rd, rs1 |-> rs1, rs2 |-> rs2, imm |-> imm,
     target_pc |-> target_pc]

\* the outcome of decode_word: the (Meta, text) pair or the RuntimeError.
\* The text is kept as the tuple of the pieces the f-string formats.
Decoded(m, s) == [raised |-> FALSE, m |-> m, s |-> s]
DecodeError(what) ==
    [raised |-> TRUE, m |-> Meta("NOP", 0, 0, 0, ZERO, None), s |-> <<what>>]

BranchOp(funct3) ==
    CASE funct3 = 0 -> "BEQ" [] funct3 = 1 -> "BNE" [] funct3 = 4 -> "BLT"
      [] funct3 = 5 -> "BGE" [] funct3 = 6 -> "BLTU" [] funct3 = 7 -> "BGEU"
      [] OTHER -> None

LoadOp(funct3) ==
    CASE funct3 = 0 -> "LB" [] funct3 = 1 -> "LH" [] funct3 = 2 -> "LW"
      [] funct3 = 4 -> "LBU" [] funct3 = 5 -> "LHU"
      [] OTHER -> None

StoreOp(funct3) ==
    CASE funct3 = 0 -> "SB" [] funct3 = 1 -> "SH" [] funct3 = 2 -> "SW"
      [] OTHER -> None

OpImmOp(funct3) ==
    CASE funct3 = 0 -> "ADDI" [] funct3 = 2 -> "SLTI" [] funct3 = 3 -> "SLTIU"
      [] funct3 = 4 -> "XORI" [] funct3 = 6 -> "ORI" [] funct3 = 7 -> "ANDI"
      [] OTHER -> None

OpOp(funct7, funct3) ==
    CASE funct7 = 0  /\ funct3 = 0 -> "ADD"
      [] funct7 = 32 /\ funct3 = 0 -> "SUB"
      [] funct7 = 0  /\ funct3 = 1 -> "SLL"
      [] funct7 = 0  /\ funct3 = 2 -> "SLT"
      [] funct7 = 0  /\ funct3 = 3 -> "SLTU"
      [] funct7 = 0  /\ funct3 = 4 -> "XOR"
      [] funct7 = 0  /\ funct3 = 5 -> "SRL"
      [] funct7 = 32 /\ funct3 = 5 -> "SRA"
      [] funct7 = 0  /\ funct3 = 6 -> "OR"
      [] funct7 = 0  /\ funct3 = 7 -> "AND"
      [] OTHER -> None

decode_word(inst, at) ==
    LET opcode == Bits(inst, 0, 7)
        rd     == Bits(inst, 7, 5)
        funct3 == Bits(inst, 12, 3)
        rs1    == Bits(inst, 15, 5)
        rs2    == Bits(inst, 20, 5)
        funct7 == Bits(inst, 25, 7)
    IN
    IF inst = ZERO THEN Decoded(Meta("NOP", 0, 0, 0, ZERO, None), <<"nop">>)
    ELSE CASE opcode = 55 ->      \* 0x37 LUI
            Decoded(Meta("LUI", rd, 0, 0, ShrZ(imm_u(inst), 12), None),
                    <<"lui", rd, ShrZ(imm_u(inst), 12)>>)
      [] opcode = 23 ->           \* 0x17 AUIPC
            Decoded(Meta("AUIPC", rd, 0, 0, ShrZ(imm_u(inst), 12), None),
                    <<"auipc", rd, ShrZ(imm_u(inst), 12)>>)
      [] opcode = 111 ->          \* 0x6F JAL
            LET off == imm_j(inst)
            IN  Decoded(Meta("JAL", rd, 0, 0, ZERO, AddZ(at, off)),
                        <<"jal", rd, off>>)
      [] opcode = 103 ->          \* 0x67 JALR
            LET off == imm_i(inst)
            IN  Decoded(Meta("JALR", rd, rs1, 0, off, None),
                        <<"jalr", rd, off, rs1>>)
      [] opcode = 99 ->           \* 0x63 BRANCH
            LET off == imm_b(inst)
                tgt == AddZ(at, off)
                op  == BranchOp(funct3)
            IN  IF op = None THEN DecodeError("Unknown BR funct3")
                ELSE Decoded(Meta(op, 0, rs1, rs2, ZERO, tgt),
                             <<op, rs1, rs2, off>>)
      [] opcode = 3 ->            \* 0x03 LOAD
            LET off == imm_i(inst)
                op  == LoadOp(funct3)
            IN  IF op = None THEN DecodeError("Unknown LD funct3")
                ELSE Decoded(Meta(op, rd, rs1, 0, off, None),
                             <<op, rd, off, rs1>>)
      [] opcode = 35 ->           \* 0x23 STORE
            LET off == imm_s(inst)
                op  == StoreOp(funct3)
            IN  IF op = None THEN DecodeError("Unknown ST funct3")
                ELSE Decoded(Meta(op, 0, rs1, rs2, off, None),
                             <<op, rs2, off, rs1>>)
      [] opcode = 19 ->           \* 0x13 OP-IMM
            LET off == imm_i(inst)
                sh  == Z(Bits(inst, 20, 5))
            IN  IF OpImmOp(funct3) # None
                THEN Decoded(Meta(OpImmOp(funct3), rd, rs1, 0, off, None),
                             <<OpImmOp(funct3), rd, rs1, off>>)
                ELSE IF funct3 = 1
                THEN Decoded(Meta("SLLI", rd, rs1, 0, sh, None),
                             <<"slli", rd, rs1, sh>>)
                ELSE IF funct3 = 5
                THEN IF funct7 = 0
                     THEN Decoded(Meta("SRLI", rd, rs1, 0, sh, None),
                                  <<"srli", rd, rs1, sh>>)
                     ELSE IF funct7 = 32
                     THEN Decoded(Meta("SRAI", rd, rs1, 0, sh, None),
                                  <<"srai", rd, rs1, sh>>)
                     ELSE DecodeError("Bad shift imm")
                ELSE DecodeError("Unknown OP-IMM funct3")
      [] opcode = 51 ->           \* 0x33 OP
            LET op == OpOp(funct7, funct3)
            IN  IF op = None THEN DecodeError("Unknown OP key")
                ELSE Decoded(Meta(op, rd, rs1, rs2, ZERO, None),
                             <<op, rd, rs1, rs2>>)
      [] OTHER -> DecodeError("Unknown opcode")

\* a failed decode left as the default NOP metadata
HexMetaAt_NopOnError(w, i) == decode_word(w, Z(4 * i)).m

\* a decoder that leaves target_pc to be resolved later
HexMetaAt_NoTarget(w, i) ==
    LET d == decode_word(w, Z(4 * i))
    IN  IF d.raised THEN Meta("DATA", 0, 0, 0, ZERO, None)
        ELSE [d.m EXCEPT !.target_pc = None]

\* simulate_commit_trace_from_hex, lines 305-316: the decoded tables
HexMetaAt(w, i) ==
    LET d == decode_word(w, Z(4 * i))
    IN  IF d.raised THEN Meta("DATA", 0, 0, 0, ZERO, None) ELSE d.m

HexAsmAt(w, i) ==
    LET d == decode_word(w, Z(4 * i))
    IN  IF d.raised THEN <<".word", w>> ELSE d.s

HexMeta(ws) == [i \in 1..Len(ws) |-> HexMetaAt(ws[i], i - 1)]
HexAsm(ws)  == [i \in 1..Len(ws) |-> HexAsmAt(ws[i], i - 1)]

-----------------------------------------------------------------------------
(***************************************************************************)
(* Byte memory (sw/rv32i_tests_gen.py lines 650-665).  mem is a function   *)
(* whose domain is the set of addresses written so far (a Python dict).    *)
(***************************************************************************)
EmptyMem == [a \in {} |-> 0]

\* a byte write that keeps the address as given, beyond 2^32 - 1 too
mem_write_byte_NoWrap(m, addr, val) ==
    [x \in DOMAIN m \cup {addr} |-> IF x = addr THEN Lo(MaskZ(val, 8)) ELSE m[x]]

\* a byte write that keeps only 16 bits of the address
mem_write_byte_Mask16(m, addr, val) ==
    LET a == MaskZ(addr, 16)
    IN  [x \in DOMAIN m \cup {a} |-> IF x = a THEN Lo(MaskZ(val, 8)) ELSE m[x]]

mem_write_byte(m, addr, val) ==
    LET a == u32(addr)
    IN  [x \in DOMAIN m \cup {a} |-> IF x = a THEN Lo(MaskZ(val, 8)) ELSE m[x]]

mem_read_byte(m, addr) ==
    LET a == u32(addr)
    IN  IF a \in DOMAIN m THEN m[a] ELSE 0

\* a write that puts the most significant byte at the lowest address
RECURSIVE mem_write_from_BigEndian(_, _, _, _, _)
mem_write_from_BigEndian(m, addr, size, val, i) ==
    IF i >= size THEN m
    ELSE mem_write_from_BigEndian(
             mem_write_byte(m, AddZ(addr, Z(i)), ShrZ(val, 8 * (size - 1 - i))),
             addr, size, val, i + 1)

RECURSIVE mem_write_from(_, _, _, _, _)
mem_write_from(m, addr, size, val, i) ==
    IF i >= size THEN m
    ELSE mem_write_from(mem_write_byte(m, AddZ(addr, Z(i)), ShrZ(val, 8 * i)),
                        addr, size, val, i + 1)

mem_write(m, addr, size, val) == mem_write_from(m, addr, size, val, 0)

RECURSIVE mem_read_from(_, _, _, _)
mem_read_from(m, addr, size, i) ==
    IF i >= size THEN ZERO
    ELSE OrZ(ShlZ(Z(mem_read_byte(m, AddZ(addr, Z(i)))), 8 * i),
             mem_read_from(m, addr, size, i + 1))

mem_read(m, addr, size) == mem_read_from(m, addr, size, 0)

-----------------------------------------------------------------------------
(***************************************************************************)
(* Golden simulator (sw/rv32i_tests_gen.py lines 671-868).                 *)
(***************************************************************************)
\* r(i): the register read of the loop body
r(rf, i) == IF i = 0 THEN ZERO ELSE rf[i]

\* an image whose last word is never fetched
InImage_OneShort(ws, p) == p[1] = 0 /\ p[2] % 4 = 0 /\ (p[2] \div 4) + 1 < Len(ws)

\* pc in pc_to_idx, and pc_to_idx[pc] (0-based)
InImage(ws, p) == p[1] = 0 /\ p[2] % 4 = 0 /\ (p[2] \div 4) < Len(ws)
IdxOf(p) == p[2] \div 4

BranchOps == {"BEQ", "BNE", "BLT", "BGE", "BLTU", "BGEU"}

\* a branch unit that orders every pair as unsigned
Taken_AllUnsigned(op, a, b) ==
    CASE op = "BEQ"  -> u32(a) = u32(b)
      [] op = "BNE"  -> u32(a) # u32(b)
      [] op = "BLT"  -> LtZ(u32(a), u32(b))
      [] op = "BGE"  -> GeZ(u32(a), u32(b))
      [] op = "BLTU" -> LtZ(u32(a), u32(b))
      [] OTHER       -> GeZ(u32(a), u32(b))

\* lines 774-786
Taken(op, a, b) ==
    CASE op = "BEQ"  -> u32(a) = u32(b)
      [] op = "BNE"  -> u32(a) # u32(b)
      [] op = "BLT"  -> LtZ(s32(a), s32(b))
      [] op = "BGE"  -> GeZ(s32(a), s32(b))
      [] op = "BLTU" -> LtZ(u32(a), u32(b))
      [] OTHER       -> GeZ(u32(a), u32(b))

Bool01(b) == IF b THEN Z(1) ELSE ZERO

\* the result of one loop body up to the commit: the error raised ("" when
\* none), the value computed for rd, the next pc and the memory
Outcome(err, rd_data, next_pc, m) ==
    [err |-> err, rd_data |-> rd_data, next_pc |-> next_pc, mem |-> m]

\* lines 699-845: execute the instruction with metadata m at address p
Exec(m, p, rf, mm) ==
    LET op   == m.op
        rs1  == m.rs1
        rs2  == m.rs2
        imm  == m.imm
        nxt  == AddZ(p, Z(4))
        addr == u32(AddZ(r(rf, rs1), sext(imm, 12)))
        Val(v) == Outcome("", v, nxt, mm)
    IN
    CASE op = "NOP"   -> Val(ZERO)
      [] op = "LUI"   -> Val(u32(ShlZ(MaskZ(imm, 20), 12)))
      [] op = "AUIPC" -> Val(u32(AddZ(p, ShlZ(MaskZ(imm, 20), 12))))
      [] op = "ADDI"  -> Val(u32(AddZ(r(rf, rs1), sext(imm, 12))))
      [] op = "SLTI"  -> Val(Bool01(LtZ(s32(r(rf, rs1)), sext(imm, 12))))
      [] op = "SLTIU" -> Val(Bool01(LtZ(u32(r(rf, rs1)), u32(sext(imm, 12)))))
      [] op = "XORI"  -> Val(u32(XorZ(r(rf, rs1), sext(imm, 12))))
      [] op = "ORI"   -> Val(u32(OrZ(r(rf, rs1), sext(imm, 12))))
      [] op = "ANDI"  -> Val(u32(AndZ(r(rf, rs1), sext(imm, 12))))
      [] op = "SLLI"  -> Val(Sll32(r(rf, rs1), Lo(MaskZ(imm, 5))))
      [] op = "SRLI"  -> Val(u32(ShrZ(u32(r(rf, rs1)), Lo(MaskZ(imm, 5)))))
      [] op = "SRAI"  -> Val(u32(ShrZ(s32(r(rf, rs1)), Lo(MaskZ(imm, 5)))))
      [] op = "ADD"   -> Val(u32(AddZ(r(rf, rs1), r(rf, rs2))))
      [] op = "SUB"   -> Val(u32(SubZ(r(rf, rs1), r(rf, rs2))))
      [] op = "SLL"   -> Val(Sll32(r(rf, rs1), Lo(MaskZ(r(rf, rs2), 5))))
      [] op = "SLT"   -> Val(Bool01(LtZ(s32(r(rf, rs1)), s32(r(rf, rs2)))))
      [] op = "SLTU"  -> Val(Bool01(LtZ(u32(r(rf, rs1)), u32(r(rf, rs2)))))
      [] op = "XOR"   -> Val(u32(XorZ(r(rf, rs1), r(rf, rs2))))
      [] op = "SRL"   -> Val(u32(ShrZ(u32(r(rf, rs1)), Lo(MaskZ(r(rf, rs2), 5)))))
      [] op = "SRA"   -> Val(u32(ShrZ(s32(r(rf, rs1)), Lo(MaskZ(r(rf, rs2), 5)))))
      [] op = "OR"    -> Val(u32(OrZ(r(rf, rs1), r(rf, rs2))))
      [] op = "AND"   -> Val(u32(AndZ(r(rf, rs1), r(rf, rs2))))
      [] op \in BranchOps ->
            IF m.target_pc = None THEN Outcome("Unresolved branch", ZERO, nxt, mm)
            ELSE Outcome("", ZERO,
                         IF Taken(op, r(rf, rs1), r(rf, rs2)) THEN m.target_pc
                         ELSE nxt,
                         mm)
      [] op = "JAL"   ->
            IF m.target_pc = None THEN Outcome("Unresolved JAL", ZERO, nxt, mm)
            ELSE Outcome("", u32(nxt), m.target_pc, mm)
      [] op = "JALR"  ->
            Outcome("", u32(nxt),
                    AndZ(u32(AddZ(r(rf, rs1), sext(imm, 12))), <<65535, 65534>>),
                    mm)
      [] op = "LB"    -> Val(u32(sext(mem_read(mm, addr, 1), 8)))
      [] op = "LBU"   -> Val(u32(mem_read(mm, addr, 1)))
      [] op = "LH"    -> Val(u32(sext(mem_read(mm, addr, 2), 16)))
      [] op = "LHU"   -> Val(u32(mem_read(mm, addr, 2)))
      [] op = "LW"    -> Val(u32(mem_read(mm, addr, 4)))
      [] op = "SB"    -> Outcome("", ZERO, nxt, mem_write(mm, addr, 1, r(rf, rs2)))
      [] op = "SH"    -> Outcome("", ZERO, nxt, mem_write(mm, addr, 2, r(rf, rs2)))
      [] op = "SW"    -> Outcome("", ZERO, nxt, mem_write(mm, addr, 4, r(rf, rs2)))
      [] op = "DATA"  -> Outcome("Executed DATA", ZERO, nxt, mm)
      [] OTHER        -> Outcome("Unknown op", ZERO, nxt, mm)

\* a variant that keeps only the low 11 bits of the immediate
ExecTest_Mask11(m, p, rf, mm) ==
    LET field == MaskZ(m.imm, 11)
        nxt   == AddZ(p, Z(4))
    IN  CASE m.op = "XORI" -> Outcome("", u32(XorZ(r(rf, m.rs1), field)), nxt, mm)
          [] m.op = "ORI"  -> Outcome("", u32(OrZ(r(rf, m.rs1), field)), nxt, mm)
          [] m.op = "ANDI" -> Outcome("", u32(AndZ(r(rf, m.rs1), field)), nxt, mm)
          [] m.op = "DATA" -> Outcome("Unknown op", ZERO, nxt, mm)
          [] OTHER         -> Exec(m, p, rf, mm)

\* test/rv32i_tests_gen.py lines 547-690: the loop body of the second copy
\* of the simulator.  It is the body above except that XORI, ORI and ANDI
\* use imm & 0xFFF (lines 570-577) and that there is no DATA case, so a
\* DATA word reaches the final else.
ExecTest(m, p, rf, mm) ==
    LET field == MaskZ(m.imm, 12)
        nxt   == AddZ(p, Z(4))
    IN  CASE m.op = "XORI" -> Outcome("", u32(XorZ(r(rf, m.rs1), field)), nxt, mm)
          [] m.op = "ORI"  -> Outcome("", u32(OrZ(r(rf, m.rs1), field)), nxt, mm)
          [] m.op = "ANDI" -> Outcome("", u32(AndZ(r(rf, m.rs1), field)), nxt, mm)
          [] m.op = "DATA" -> Outcome("Unknown op", ZERO, nxt, mm)
          [] OTHER         -> Exec(m, p, rf, mm)

\* the loop body of sw/rv32i_tests_gen.py ("sw") or test/rv32i_tests_gen.py
ExecOf(variant, m, p, rf, mm) ==
    IF variant = "sw" THEN Exec(m, p, rf, mm) ELSE ExecTest(m, p, rf, mm)

\* Commit without the rd != 0 guard and without the reset of x0
Commit_WritesX0(rf, rd, rd_data) == [rf EXCEPT ![rd] = u32(rd_data)]

\* lines 847-850: the architectural write, then x0 forced to zero
Commit(rf, rd, rd_data) ==
    LET w == IF rd # 0 THEN [rf EXCEPT ![rd] = u32(rd_data)] ELSE rf
    IN  [w EXCEPT ![0] = ZERO]

\* CommitEntry recording the pc after the update of line 862
CommitEntry_NextPc(cyc, p, w, rd, rd_data, rf, text) ==
    [cycle |-> cyc, pc |-> AddZ(p, Z(4)), inst |-> w, rd |-> rd,
     rd_data |-> IF rd # 0 THEN rf[rd] ELSE ZERO, asm |-> text]

\* CommitEntry recording the computed value instead of the committed one
CommitEntry_LocalData(cyc, p, w, rd, rd_data, rf, text) ==
    [cycle |-> cyc, pc |-> p, inst |-> w, rd |-> rd,
     rd_data |-> rd_data, asm |-> text]

\* lines 853-860: the entry appended after the commit.  rd_data is the local
\* of the loop body, rf the register file after the commit.
CommitEntry(cyc, p, w, rd, rd_data, rf, text) ==
    [cycle |-> cyc, pc |-> p, inst |-> w, rd |-> rd,
     rd_data |-> IF rd # 0 THEN rf[rd] ELSE ZERO, asm |-> text]

\* a loop that tests the budget after the step instead of before it
LoopCond_OneMore == cycle <= max_steps /\ InImage(words, pc)

\* line 693: the loop condition
LoopCond == cycle < max_steps /\ InImage(words, pc)

\* the instruction the loop body is about to execute
CurMeta == meta[IdxOf(pc) + 1]
CurOut  == Exec(CurMeta, pc, regs, mem)

-----------------------------------------------------------------------------
(***************************************************************************)
(* Bounds of the model and the inputs drawn in the initial states.         *)
(***************************************************************************)
MaxProg  == 3      \* longest program image, in words
MaxSteps == 3      \* largest step budget handed to the simulator

\* sequences over S of length 0..n, and of length 1..n
SeqsUpTo(S, n) == UNION {[1..k -> S] : k \in 0..n}
SeqsFrom1(S, n) == UNION {[1..k -> S] : k \in 1..n}

\* the words program images are built from
DataWord == <<65535, 65535>>                       \* 0xffffffff: no such opcode
WordPool ==
    { ADDI(1, 0, 5),          \* x1 = 5
      ADDI(1, 0, 0),          \* writes 0 to x1
      ADDI(0, 0, 999),        \* write attempt to x0
      LUI(0, 74565),          \* lui x0, 0x12345
      ADD(2, 0, 1),           \* reads x0 as a source
      JAL(1, 8),              \* skips one word
      JAL(0, 0),              \* self-jump
      BEQ(1, 0, 8),           \* taken while x1 = 0
      JALR(2, 1, 4),          \* to (x1 + 4) & ~1
      SW(1, 0, 0),
      ZERO,                   \* the all-zero word decodes as NOP
      DataWord }

\* the other tools stay idle while one of them runs
SimIdle ==
    /\ words = <<>> /\ meta = <<>> /\ asm = <<>> /\ max_steps = 0
    /\ regs = [i \in 0..31 |-> ZERO] /\ mem = EmptyMem /\ pc = ZERO
    /\ cycle = 0 /\ commit_trace = <<>> /\ sim_state = "idle"
    /\ sim_error = "" /\ warned = FALSE /\ ret = None

DiffIdle ==
    /\ gold = <<>> /\ sim = <<>> /\ radius = 0 /\ diff_state = "idle"
    /\ diff_i = NoneI /\ report = "" /\ window = {}

RedirIdle ==
    /\ log = <<>> /\ ln = 0 /\ pend = NoneI /\ total_uops = 0
    /\ redirects = 0 /\ rc = NoneI /\ msg = <<>>

CallIdle == call = <<>> /\ result = <<>>

LogIdle ==
    /\ mem_hex = <<>> /\ trace = <<>> /\ pos = 0 /\ bad = 0 /\ seen = 0
    /\ skipped_parse = 0 /\ skipped_not_in_hex = 0
    /\ cl_state = "idle" /\ summary = <<>>

-----------------------------------------------------------------------------
(***************************************************************************)
(* The simulator run: simulate_commit_trace_from_hex on an image.          *)
(***************************************************************************)
\* lines 303-318 and 681-688: the state when the loop is first tested
SimInit ==
    /\ words \in SeqsFrom1(WordPool, MaxProg)     \* a non-empty image
    /\ max_steps \in 0..MaxSteps
    /\ meta = HexMeta(words)
    /\ asm = HexAsm(words)
    /\ regs = [i \in 0..31 |-> ZERO]
    /\ mem = EmptyMem
    /\ pc = ZERO
    /\ cycle = 0
    /\ commit_trace = <<>>
    /\ sim_state = "running"
    /\ sim_error = ""
    /\ warned = FALSE
    /\ ret = None

\* an iteration that commits rd first and computes the next pc from the
\* updated register file
Step_LinkFirst ==
    /\ sim_state = "running"
    /\ LoopCond
    /\ CurOut.err = ""
    /\ LET m  == CurMeta
           o  == CurOut
           rf == Commit(regs, m.rd, o.rd_data)
       IN  /\ regs' = rf
           /\ mem' = o.mem
           /\ commit_trace' = Append(commit_trace,
                  CommitEntry(cycle, pc, words[IdxOf(pc) + 1], m.rd, o.rd_data,
                              rf, asm[IdxOf(pc) + 1]))
           /\ pc' = Exec(m, pc, rf, mem).next_pc
           /\ cycle' = cycle + 1
    /\ UNCHANGED <<words, meta, asm, max_steps, sim_state, sim_error, warned,
                   ret>>
    /\ UNCHANGED <<diffVars, redirVars, callVars, logVars>>

\* one iteration of the loop that commits (lines 693-863)
Step ==
    /\ sim_state = "running"
    /\ LoopCond
    /\ CurOut.err = ""
    /\ LET m  == CurMeta
           o  == CurOut
           rf == Commit(regs, m.rd, o.rd_data)
       IN  /\ regs' = rf
           /\ mem' = o.mem
           /\ commit_trace' = Append(commit_trace,
                  CommitEntry(cycle, pc, words[IdxOf(pc) + 1], m.rd, o.rd_data,
                              rf, asm[IdxOf(pc) + 1]))
           /\ pc' = o.next_pc
           /\ cycle' = cycle + 1
    /\ UNCHANGED <<words, meta, asm, max_steps, sim_state, sim_error, warned,
                   ret>>
    /\ UNCHANGED <<diffVars, redirVars, callVars, logVars>>

\* an iteration that raises RuntimeError (lines 772, 793, 841, 845): the
\* exception leaves the function, nothing is returned
Fatal ==
    /\ sim_state = "running"
    /\ LoopCond
    /\ CurOut.err # ""
    /\ sim_state' = "raised"
    /\ sim_error' = CurOut.err
    /\ UNCHANGED <<words, meta, asm, max_steps, regs, mem, pc, cycle,
                   commit_trace, warned, ret>>
    /\ UNCHANGED <<diffVars, redirVars, callVars, logVars>>

\* the loop condition fails: the warning and the return (lines 865-868)
Finish ==
    /\ sim_state = "running"
    /\ ~LoopCond
    /\ warned' = (cycle >= max_steps)
    /\ sim_state' = "returned"
    /\ ret' = <<commit_trace, regs>>
    /\ UNCHANGED <<words, meta, asm, max_steps, regs, mem, pc, cycle,
                   commit_trace, sim_error>>
    /\ UNCHANGED <<diffVars, redirVars, callVars, logVars>>

Init == SimInit /\ DiffIdle /\ RedirIdle /\ CallIdle /\ LogIdle

Next == Step \/ Fatal \/ Finish

Spec == Init /\ [][Next]_vars

-----------------------------------------------------------------------------
(***************************************************************************)
(* Properties of the simulator run (specification Spec).                   *)
(***************************************************************************)
\* the value register i holds before entry k, replayed from the trace alone
ReplayReg(tr, k, i) ==
    IF i = 0 \/ ~\E j \in 1..(k - 1) : tr[j].rd = i THEN ZERO
    ELSE LET j == CHOOSE j \in 1..(k - 1) :
                      /\ tr[j].rd = i
                      /\ \A h \in (j + 1)..(k - 1) : tr[h].rd # i
         IN  tr[j].rd_data

\* the next pc the instruction of entry k selects, replayed from the trace
ReplayNextPc(tr, k) ==
    LET e == tr[k]
        m == decode_word(e.inst, e.pc).m
        a == ReplayReg(tr, k, m.rs1)
        b == ReplayReg(tr, k, m.rs2)
        t == u32(AddZ(a, imm_i(e.inst)))
    IN  CASE m.op \in BranchOps ->
                IF Taken(m.op, a, b) THEN AddZ(e.pc, imm_b(e.inst))
                ELSE AddZ(e.pc, Z(4))
          [] m.op = "JAL"  -> AddZ(e.pc, imm_j(e.inst))
          [] m.op = "JALR" -> <<t[1], t[2] - (t[2] % 2)>>
          [] OTHER         -> AddZ(e.pc, Z(4))

\* C1: register 0 is 0 after every step, whatever targeted it, and a read of
\* register 0 as a source operand yields 0 (ADD x2,x0,x1 commits x1's value)
C1_X0AlwaysZero ==
    /\ regs[0] = ZERO
    /\ r(regs, 0) = ZERO
    /\ \A k \in 1..Len(commit_trace) :
          commit_trace[k].inst = ADD(2, 0, 1)
              => commit_trace[k].rd_data = ReplayReg(commit_trace, k, 1)

\* C1 witness: ADDI x0,x0,999 and LUI x0,0x12345 have both committed
C1_Witness ==
    /\ \E k \in 1..Len(commit_trace) : commit_trace[k].inst = ADDI(0, 0, 999)
    /\ \E k \in 1..Len(commit_trace) : commit_trace[k].inst = LUI(0, 74565)
    /\ regs[0] = ZERO

\* C2: the trace has one entry per executed instruction, in execution order:
\* entry k has cycle k, entry 0 has pc 0, and the pc of entry k+1 is the next
\* pc selected by the instruction of entry k
C2_TraceInExecutionOrder ==
    /\ Len(commit_trace) = cycle
    /\ \A k \in 1..Len(commit_trace) : commit_trace[k].cycle = k - 1
    /\ Len(commit_trace) > 0 => commit_trace[1].pc = ZERO
    /\ \A k \in 1..(Len(commit_trace) - 1) :
          commit_trace[k + 1].pc = ReplayNextPc(commit_trace, k)

\* C2 witness: a returned trace of three entries whose control flow left the
\* straight line (a jump or a taken branch)
C2_Witness ==
    /\ sim_state = "returned"
    /\ Len(commit_trace) = 3
    /\ \E k \in 1..2 :
          commit_trace[k + 1].pc # AddZ(commit_trace[k].pc, Z(4))

\* C3 as stated: an entry's committed value is 0 if and only if its rd is 0
C3_DataZeroIffRdZero ==
    \A k \in 1..Len(commit_trace) :
        (commit_trace[k].rd_data = ZERO) <=> (commit_trace[k].rd = 0)

\* C3 amended: an entry whose rd is 0 has committed value 0 (an entry with a
\* non-zero rd may commit 0 as well)
C3_RdZeroImpliesDataZero ==
    \A k \in 1..Len(commit_trace) :
        commit_trace[k].rd = 0 => commit_trace[k].rd_data = ZERO

\* C3 witness: LUI x0,0x12345, which computes a non-zero value, has committed
\* with rd 0 and value 0
C3_Witness ==
    \E k \in 1..Len(commit_trace) :
        /\ commit_trace[k].inst = LUI(0, 74565)
        /\ commit_trace[k].rd = 0
        /\ commit_trace[k].rd_data = ZERO

\* C4 as stated: the warning is printed if and only if the run was cut short
\* by the budget, i.e. the pc still maps to an instruction when the loop stops
C4_WarningIffCutShort ==
    sim_state = "returned" => (warned <=> InImage(words, pc))

\* the pc has reached a DATA-tagged word
AtData == InImage(words, pc) /\ CurMeta.op = "DATA"

\* C5 as stated: undecodable words are tagged DATA at load, and the run raises
\* exactly when the pc reaches a DATA-tagged word
C5_RaisesIffPcReachesData ==
    /\ sim_state = "returned" => ~AtData
    /\ sim_state = "raised" => AtData

\* C5 amended: every word that fails to decode is tagged DATA without raising
\* at load; the run raises, returning nothing, exactly when a DATA-tagged word
\* is fetched for execution (the pc reaches it while steps remain in the
\* budget); a run that fetches no DATA word returns its trace
C5_RaisesIffDataFetched ==
    /\ sim_state \in {"running", "returned", "raised"}
    /\ \A i \in 1..Len(words) :
          (meta[i].op = "DATA") <=> decode_word(words[i], Z(4 * (i - 1))).raised
    /\ sim_state = "raised" =>
          /\ AtData /\ cycle < max_steps
          /\ sim_error = "Executed DATA"
          /\ ret = None
    /\ (sim_state = "running" /\ LoopCond /\ AtData) =>
          (ENABLED Fatal /\ ~ENABLED Step /\ ~ENABLED Finish)
    /\ sim_state = "returned" =>
          /\ ret = <<commit_trace, regs>>
          /\ ~(AtData /\ cycle < max_steps)
          /\ \A k \in 1..Len(commit_trace) :
                meta[IdxOf(commit_trace[k].pc) + 1].op # "DATA"

\* C5 witness: the run raised at a DATA word after committing two entries
C5_Witness ==
    /\ sim_state = "raised"
    /\ Len(commit_trace) = 2
    /\ words[IdxOf(pc) + 1] = DataWord

-----------------------------------------------------------------------------
(***************************************************************************)
(* Trace comparator (test/trace_diff.py).  Indices are 0-based as in the   *)
(* source; the sequences of the model are 1-based.                         *)
(***************************************************************************)
MaxTrace  == 2     \* longest golden / hardware sequence
MaxRadius == 1     \* largest --radius

\* the (pc, rd, data) values the records are built from: the second differs
\* from the first in data only, the third in pc only, the fourth in rd only
KeyPool == { <<Z(0), 1, Z(5)>>, <<Z(0), 1, Z(7)>>,
             <<Z(4), 1, Z(5)>>, <<Z(0), 2, Z(5)>> }

\* a record of parse_gold_trace (lines 31-40) and of parse_commit_jsonl
\* (lines 84-96) at position idx
GoldRec(k, idx) ==
    [idx |-> idx, cycle |-> idx, pc |-> k[1], inst |-> NOP, rd |-> k[2],
     data |-> k[3], asm |-> "nop"]

SimRec(k, idx) ==
    [idx |-> idx, cycle |-> idx, pc |-> k[1], rd |-> k[2], data |-> k[3],
     is_branch |-> 0, mispredict |-> 0, lineno |-> idx + 1]

\* key with the cycle among the compared fields
key_WithCycle(rec) == <<rec.pc, rec.rd, rec.data, rec.cycle>>

\* key without the data field
key_NoData(rec) == <<rec.pc, rec.rd>>

\* lines 103-104
key(rec) == <<rec.pc, rec.rd, rec.data>>

Min(a, b) == IF a < b THEN a ELSE b
Max(a, b) == IF a > b THEN a ELSE b

\* lines 128-134: the loop from index i on, then the length test
RECURSIVE diff_scan(_, _, _, _)
diff_scan(g, h, i, n) ==
    IF i < n
    THEN IF key(g[i + 1]) # key(h[i + 1]) THEN Some(i)
         ELSE diff_scan(g, h, i + 1, n)
    ELSE IF Len(h) # Len(g) THEN Some(n) ELSE NoneI

\* diff_first without the length test after the loop
diff_first_PrefixOnly(g, h) ==
    LET n == Min(Len(g), Len(h))
    IN  IF \E i \in 0..(n - 1) : key(g[i + 1]) # key(h[i + 1])
        THEN diff_scan(g, h, 0, n) ELSE NoneI

\* lines 126-134
diff_first(g, h) == diff_scan(g, h, 0, Min(Len(g), Len(h)))

\* main's test for the ended-early report without the i == min(...) part
EndedEarly_LenOnly(g, h, i) == Len(h) < Len(g)

\* line 154
EndedEarly(g, h, i) == i = Min(Len(g), Len(h)) /\ Len(h) < Len(g)

\* lines 114-116: the indices show_window prints
show_window(g, h, center, rad) ==
    LET start == Max(0, center - rad)
        end   == Min(Len(g), center + rad + 1)
    IN  start..(end - 1)

DiffInit ==
    /\ \E gk \in SeqsUpTo(KeyPool, MaxTrace), hk \in SeqsUpTo(KeyPool, MaxTrace) :
          /\ gold = [i \in 1..Len(gk) |-> GoldRec(gk[i], i - 1)]
          /\ sim  = [i \in 1..Len(hk) |-> SimRec(hk[i], i - 1)]
    /\ radius \in 0..MaxRadius
    /\ diff_state = "start"
    /\ diff_i = NoneI
    /\ report = ""
    /\ window = {}

\* lines 149-152: the sequences match
ReportMatch ==
    /\ diff_state = "start"
    /\ diff_first(gold, sim) = NoneI
    /\ diff_i' = NoneI
    /\ report' = "match"
    /\ diff_state' = "done"
    /\ UNCHANGED <<gold, sim, radius, window>>
    /\ UNCHANGED <<simVars, redirVars, callVars, logVars>>

\* lines 154-164: SIM ENDED EARLY
ReportEndedEarly ==
    /\ diff_state = "start"
    /\ LET d == diff_first(gold, sim)
       IN  /\ d # NoneI
           /\ EndedEarly(gold, sim, d[1])
           /\ diff_i' = d
           /\ window' = show_window(gold, sim, Max(0, d[1] - 1), radius)
    /\ report' = "ended_early"
    /\ diff_state' = "done"
    /\ UNCHANGED <<gold, sim, radius>>
    /\ UNCHANGED <<simVars, redirVars, callVars, logVars>>

\* lines 166-174: FIRST MISMATCH
ReportMismatch ==
    /\ diff_state = "start"
    /\ LET d == diff_first(gold, sim)
       IN  /\ d # NoneI
           /\ ~EndedEarly(gold, sim, d[1])
           /\ diff_i' = d
           /\ window' = show_window(gold, sim, d[1], radius)
    /\ report' = "mismatch"
    /\ diff_state' = "done"
    /\ UNCHANGED <<gold, sim, radius>>
    /\ UNCHANGED <<simVars, redirVars, callVars, logVars>>

InitDiff == DiffInit /\ SimIdle /\ RedirIdle /\ CallIdle /\ LogIdle

NextDiff == ReportMatch \/ ReportEndedEarly \/ ReportMismatch

SpecDiff == InitDiff /\ [][NextDiff]_vars

(***************************************************************************)
(* Properties of the comparator (specification SpecDiff).                  *)
(***************************************************************************)
\* the compared fields of two records agree
SameKey(a, b) == a.pc = b.pc /\ a.rd = b.rd /\ a.data = b.data

\* the two sequences agree on the compared fields below 0-based index i
AgreeBelow(i) == \A j \in 1..i : SameKey(gold[j], sim[j])

\* the keys differ at 0-based index i, which both sequences hold
DifferAt(i) == i < Len(gold) /\ i < Len(sim) /\ ~SameKey(gold[i + 1], sim[i + 1])

\* C6: a match is reported if and only if the sequences have equal length and
\* identical (pc, rd, data) at every index; a longer hardware sequence never
\* passes
C6_MatchIffEqual ==
    diff_state = "done" =>
        /\ (diff_i = NoneI) <=>
              (Len(gold) = Len(sim) /\ AgreeBelow(Len(gold)))
        /\ (report = "match") <=> (diff_i = NoneI)
        /\ Len(sim) > Len(gold) => report # "match"

\* C6 witness: a hardware sequence that extends an identical golden sequence
\* was compared and did not pass
C6_Witness ==
    /\ diff_state = "done"
    /\ Len(gold) = 1 /\ Len(sim) = 2
    /\ AgreeBelow(1)
    /\ report # "match"

\* C7: a reported index i has identical keys below it and is the least index
\* at which the keys differ or one sequence has ended; equal-length sequences
\* that differ only in the data of entry k yield k
C7_FirstDivergence ==
    diff_state = "done" =>
        /\ diff_i # NoneI =>
              /\ diff_i[1] \in 0..Max(Len(gold), Len(sim))
              /\ AgreeBelow(diff_i[1])
              /\ \/ DifferAt(diff_i[1])
                 \/ diff_i[1] = Len(gold)
                 \/ diff_i[1] = Len(sim)
        /\ \A k \in 0..(Len(gold) - 1) :
              ( /\ Len(gold) = Len(sim)
                /\ \A j \in 1..Len(gold) :
                      /\ gold[j].pc = sim[j].pc
                      /\ gold[j].rd = sim[j].rd
                      /\ (gold[j].data # sim[j].data) <=> (j = k + 1) )
              => diff_i = Some(k)

\* C7 witness: two sequences of length two that differ only in the data of
\* entry 1 were compared
C7_Witness ==
    /\ diff_state = "done"
    /\ Len(gold) = 2 /\ Len(sim) = 2
    /\ SameKey(gold[1], sim[1])
    /\ gold[2].pc = sim[2].pc /\ gold[2].rd = sim[2].rd
    /\ gold[2].data # sim[2].data
    /\ diff_i = Some(1)

\* C8: a hardware sequence that is a strict prefix of the golden one is
\* reported as ended early at its own length; a key mismatch at an index both
\* sequences hold is reported as a mismatch, also when the hardware sequence
\* is the shorter one
C8_EndedEarlyOrMismatch ==
    diff_state = "done" =>
        /\ (Len(sim) < Len(gold) /\ AgreeBelow(Len(sim))) =>
              (report = "ended_early" /\ diff_i = Some(Len(sim)))
        /\ (\E i \in 0..(Min(Len(gold), Len(sim)) - 1) : DifferAt(i)) =>
              report = "mismatch"

\* C8 witness: a shorter hardware sequence with a key mismatch at index 0 was
\* reported as a mismatch
C8_Witness ==
    /\ diff_state = "done"
    /\ Len(sim) = 1 /\ Len(gold) = 2
    /\ DifferAt(0)
    /\ report = "mismatch"

\* the values the fields outside the key take in the relabelled records
AltGold(rec) == [rec EXCEPT !.cycle = rec.cycle + 7, !.inst = DataWord,
                            !.asm = "addi x1, x0, 5"]
AltSim(rec)  == [rec EXCEPT !.cycle = rec.cycle + 7, !.is_branch = 1,
                            !.mispredict = 1, !.lineno = rec.lineno + 3]

\* the sequences that differ from g (from h) only outside the key: every
\* entry either kept or relabelled in all such fields, or one field of one
\* entry changed
GoldVariants(g) ==
    { [i \in 1..Len(g) |-> IF i \in S THEN AltGold(g[i]) ELSE g[i]] :
          S \in SUBSET (1..Len(g)) }
    \cup { [g EXCEPT ![i].cycle = g[i].cycle + 1] : i \in 1..Len(g) }
    \cup { [g EXCEPT ![i].inst = DataWord] : i \in 1..Len(g) }
    \cup { [g EXCEPT ![i].asm = "x"] : i \in 1..Len(g) }

SimVariants(h) ==
    { [i \in 1..Len(h) |-> IF i \in S THEN AltSim(h[i]) ELSE h[i]] :
          S \in SUBSET (1..Len(h)) }
    \cup { [h EXCEPT ![i].cycle = h[i].cycle + 1] : i \in 1..Len(h) }
    \cup { [h EXCEPT ![i].is_branch = 1] : i \in 1..Len(h) }
    \cup { [h EXCEPT ![i].mispredict = 1] : i \in 1..Len(h) }

\* C9: the result of diff_first depends only on the (pc, rd, data) fields:
\* inputs that differ from the compared ones only in cycle, instruction word,
\* asm text, is_branch or mispredict give the result that was reported
C9_DependsOnKeyOnly ==
    diff_state = "done" =>
        \A g \in GoldVariants(gold), h \in SimVariants(sim) :
            diff_first(g, h) = diff_i

\* C9 witness: a comparison of two sequences of length two that matched, so
\* that every relabelling of a cycle or flag is a potential divergence
C9_Witness ==
    /\ diff_state = "done"
    /\ Len(gold) = 2 /\ Len(sim) = 2
    /\ report = "match"
    /\ Cardinality(GoldVariants(gold)) > 4
    /\ Cardinality(SimVariants(sim)) > 4

-----------------------------------------------------------------------------
(***************************************************************************)
(* Redirect validator (test/check_redirect.py).  A line of the log is kept *)
(* as what the two regular expressions make of it: <<"REDIRECT", t>> when  *)
(* RE_REDIRECT matches with target t, <<"PC", y>> when it does not and      *)
(* RE_PC finds y, <<"other">> when neither matches.                        *)
(***************************************************************************)
MAX_LAT == 3
MaxLog  == 5       \* longest log, in lines

LinePool == { <<"REDIRECT", 64>>, <<"REDIRECT", 68>>,
              <<"PC", 64>>, <<"PC", 68>>, <<"other">> }

IsRedirect(line) == line[1] = "REDIRECT"
IsPC(line)       == line[1] = "PC"

\* line 46: Pending(tgt, budget)
Pending(tgt, budget) == [tgt |-> tgt, budget |-> budget]

\* a budget two short of MAX_LAT
StartBudget_TwoShort == MAX_LAT - 2

\* line 46: the budget a new redirect starts with
StartBudget == MAX_LAT

\* a scan that reads on whatever the exit status
Scanning_IgnoresStatus == ln < Len(log)

\* the line the loop reads next (enumerate(f, 1))
CurLine == log[ln + 1]
Scanning == rc = NoneI /\ ln < Len(log)

RedirInit ==
    /\ log \in SeqsUpTo(LinePool, MaxLog)
    /\ ln = 0
    /\ pend = NoneI
    /\ total_uops = 0
    /\ redirects = 0
    /\ rc = NoneI
    /\ msg = <<>>

\* lines 40-48: a REDIRECT line while nothing is pending
ReadRedirect ==
    /\ Scanning /\ IsRedirect(CurLine)
    /\ pend = NoneI
    /\ pend' = Some(Pending(CurLine[2], StartBudget))
    /\ redirects' = redirects + 1
    /\ ln' = ln + 1
    /\ UNCHANGED <<log, total_uops, rc, msg>>
    /\ UNCHANGED <<simVars, diffVars, callVars, logVars>>

\* lines 43-45: a REDIRECT line while a redirect is pending
ReadRedirectWhilePending ==
    /\ Scanning /\ IsRedirect(CurLine)
    /\ pend # NoneI
    /\ msg' = <<"ERROR", ln + 1, pend[1].tgt>>
    /\ rc' = Some(2)
    /\ ln' = ln + 1
    /\ UNCHANGED <<log, pend, total_uops, redirects>>
    /\ UNCHANGED <<simVars, diffVars, callVars, logVars>>

\* lines 50-52: a line with neither a REDIRECT nor a PC
ReadOther ==
    /\ Scanning /\ ~IsRedirect(CurLine) /\ ~IsPC(CurLine)
    /\ ln' = ln + 1
    /\ UNCHANGED <<log, pend, total_uops, redirects, rc, msg>>
    /\ UNCHANGED <<simVars, diffVars, callVars, logVars>>

\* lines 54-57: a PC line while nothing is pending
ReadPCIdle ==
    /\ Scanning /\ IsPC(CurLine)
    /\ pend = NoneI
    /\ total_uops' = total_uops + 1
    /\ ln' = ln + 1
    /\ UNCHANGED <<log, pend, redirects, rc, msg>>
    /\ UNCHANGED <<simVars, diffVars, callVars, logVars>>

\* lines 58-60: the PC line carries the pending target
ReadPCHit ==
    /\ Scanning /\ IsPC(CurLine)
    /\ pend # NoneI /\ CurLine[2] = pend[1].tgt
    /\ total_uops' = total_uops + 1
    /\ pend' = NoneI
    /\ ln' = ln + 1
    /\ UNCHANGED <<log, redirects, rc, msg>>
    /\ UNCHANGED <<simVars, diffVars, callVars, logVars>>

\* lines 61-65: another PC while pending; the budget shrinks and the scan
\* fails once it is negative
ReadPCMiss ==
    /\ Scanning /\ IsPC(CurLine)
    /\ pend # NoneI /\ CurLine[2] # pend[1].tgt
    /\ total_uops' = total_uops + 1
    /\ pend' = Some(Pending(pend[1].tgt, pend[1].budget - 1))
    /\ IF pend[1].budget - 1 < 0
       THEN /\ msg' = <<"FAIL", pend[1].tgt, MAX_LAT>>
            /\ rc' = Some(1)
       ELSE UNCHANGED <<rc, msg>>
    /\ ln' = ln + 1
    /\ UNCHANGED <<log, redirects>>
    /\ UNCHANGED <<simVars, diffVars, callVars, logVars>>

\* an end of log that reports success whatever is pending
EndOfLog_AlwaysOK ==
    /\ rc = NoneI /\ ln = Len(log)
    /\ msg' = <<"OK", redirects, total_uops>>
    /\ rc' = Some(0)
    /\ UNCHANGED <<log, ln, pend, total_uops, redirects>>
    /\ UNCHANGED <<simVars, diffVars, callVars, logVars>>

\* lines 67-72: the end of the log
EndOfLog ==
    /\ rc = NoneI /\ ln = Len(log)
    /\ IF pend # NoneI
       THEN /\ msg' = <<"FAIL_EOF", pend[1].tgt>>
            /\ rc' = Some(1)
       ELSE /\ msg' = <<"OK", redirects, total_uops>>
            /\ rc' = Some(0)
    /\ UNCHANGED <<log, ln, pend, total_uops, redirects>>
    /\ UNCHANGED <<simVars, diffVars, callVars, logVars>>

InitRedirect == RedirInit /\ SimIdle /\ DiffIdle /\ CallIdle /\ LogIdle

NextRedirect ==
    \/ ReadRedirect \/ ReadRedirectWhilePending \/ ReadOther
    \/ ReadPCIdle \/ ReadPCHit \/ ReadPCMiss \/ EndOfLog

SpecRedirect == InitRedirect /\ [][NextRedirect]_vars

(***************************************************************************)
(* Claims about the redirect validator.                                    *)
(***************************************************************************)
\* the REDIRECT lines and the PC-carrying lines among lines a..b of the log
RedirectLines(a, b) == { k \in a..b : IsRedirect(log[k]) }
PCLines(a, b)       == { k \in a..b : IsPC(log[k]) }

\* line k carries PC=T for the REDIRECT to=T of line j, it is among the
\* next 3 PC-carrying lines after j, and no REDIRECT lies between them
AnswersInTime(j, k) ==
    /\ j < k
    /\ IsRedirect(log[j]) /\ IsPC(log[k])
    /\ log[k][2] = log[j][2]
    /\ RedirectLines(j + 1, k - 1) = {}
    /\ Cardinality(PCLines(j + 1, k)) <= 3

\* C10: once the scan has read line ln, if that line carries PC=T among the
\* next 3 PC-carrying lines after a REDIRECT to=T (which the scan read with
\* nothing pending, or it would have stopped there) and no other REDIRECT
\* lies between, nothing is pending any more; and when that REDIRECT is the
\* only one of the log the validator returns 0, reporting 1 redirect and
\* the number of PC-carrying lines of the whole log.
C10_TargetInTimeClears ==
    /\ \A j \in 1..ln : AnswersInTime(j, ln) => pend = NoneI
    /\ \A j \in 1..Len(log) : \A k \in 1..Len(log) :
          ( /\ AnswersInTime(j, k)
            /\ RedirectLines(1, Len(log)) = {j}
            /\ rc # NoneI )
          => /\ rc = Some(0)
             /\ msg = <<"OK", 1, Cardinality(PCLines(1, Len(log)))>>

\* a log whose only redirect is answered on the third PC-carrying line after
\* it has been scanned to the end and accepted
C10_Witness ==
    /\ rc = Some(0)
    /\ msg = <<"OK", 1, Cardinality(PCLines(1, Len(log)))>>
    /\ \E j \in 1..Len(log) : \E k \in 1..Len(log) :
          /\ AnswersInTime(j, k)
          /\ Cardinality(PCLines(j + 1, k)) = 3
          /\ \A i \in PCLines(j + 1, k - 1) : log[i][2] # log[j][2]
          /\ RedirectLines(1, Len(log)) = {j}

\* the PC-carrying lines a..b that carry the value t
PCLinesWith(a, b, t) == { k \in PCLines(a, b) : log[k][2] = t }

\* the REDIRECT of line j is still unanswered once line k has been read: no
\* line of j+1..k is a REDIRECT or carries the target
Unanswered(j, k) ==
    /\ j <= k
    /\ IsRedirect(log[j])
    /\ RedirectLines(j + 1, k) = {}
    /\ PCLinesWith(j + 1, k, log[j][2]) = {}

\* C11: once the scan has read MAX_LAT (3) PC-carrying lines after a REDIRECT
\* to=T and none of them carried PC=T, the validator has reported FAIL
\* (status 1) for that redirect, which stays pending and is never accepted.
C11_FailAfterMaxLatMisses ==
    \A j \in 1..ln :
        (Unanswered(j, ln) /\ Cardinality(PCLines(j + 1, ln)) >= 3)
        => (rc = Some(1) /\ pend # NoneI)

\* C11: the weaker bound the scan does keep: after MAX_LAT + 1 PC-carrying
\* lines without the target the validator has reported FAIL citing it.
C11_FailAfterMaxLatPlusOne ==
    \A j \in 1..ln :
        (Unanswered(j, ln) /\ Cardinality(PCLines(j + 1, ln)) >= 4)
        => (rc = Some(1) /\ msg = <<"FAIL", log[j][2], MAX_LAT>>)

\* a redirect whose target first shows on the fourth PC-carrying line after
\* it has been accepted and the log reported clean
C11_AcceptedOnFourth ==
    /\ rc = Some(0)
    /\ \E j \in 1..Len(log) : \E k \in 1..Len(log) :
          /\ j < k /\ IsRedirect(log[j]) /\ IsPC(log[k])
          /\ log[k][2] = log[j][2]
          /\ Unanswered(j, k - 1)
          /\ Cardinality(PCLines(j + 1, k)) = 4

\* C12: at most one redirect is pending, the one of the last REDIRECT line
\* read with nothing pending; a REDIRECT line read while it is pending ends
\* the scan with status 2 at that line, is neither started nor counted, and
\* no further line is processed.
C12_SecondRedirectIsError ==
    /\ \A j \in 1..ln : \A k \in 1..ln :
          (Unanswered(j, k - 1) /\ j < k /\ k = ln /\ IsRedirect(log[k]))
          => /\ rc = Some(2)
             /\ msg = <<"ERROR", k, log[j][2]>>
             /\ pend # NoneI /\ pend[1].tgt = log[j][2]
             /\ redirects = Cardinality(RedirectLines(1, k - 1))
    /\ rc = Some(2) =>
          /\ ln >= 2 /\ IsRedirect(log[ln])
          /\ \E j \in 1..(ln - 1) : Unanswered(j, ln - 1)
          /\ ~ENABLED NextRedirect
    /\ (pend # NoneI /\ rc # Some(2)) =>
          \E j \in 1..ln : Unanswered(j, ln) /\ pend[1].tgt = log[j][2]

\* a second REDIRECT arrived while the first was pending, with lines left
C12_Witness ==
    /\ rc = Some(2)
    /\ ln < Len(log)
    /\ redirects = 1
    /\ pend # NoneI /\ pend[1].tgt # log[ln][2]

\* C13: a log that ends while a redirect is pending with budget left returns
\* status 1; status 0 is returned only at the end of the log, with nothing
\* pending and every REDIRECT of the log answered before the next one.
C13_PendingAtEndFails ==
    /\ (rc # NoneI /\ rc # Some(2) /\ pend # NoneI /\ pend[1].budget >= 0)
          => /\ rc = Some(1)
             /\ ln = Len(log)
             /\ msg = <<"FAIL_EOF", pend[1].tgt>>
    /\ (rc = NoneI /\ ln = Len(log)) => ENABLED EndOfLog
    /\ rc = Some(0) =>
          /\ ln = Len(log)
          /\ pend = NoneI
          /\ \A j \in RedirectLines(1, Len(log)) :
                \E k \in PCLinesWith(j + 1, Len(log), log[j][2]) :
                    RedirectLines(j + 1, k) = {}

\* the log ended with a redirect pending and budget left
C13_Witness ==
    /\ rc = Some(1)
    /\ msg = <<"FAIL_EOF", pend[1].tgt>>
    /\ pend[1].budget >= 0
    /\ Cardinality(PCLines(1, Len(log))) >= 1

\* C14: the FAIL outcome of an exhausted budget carries the pending target
\* and the number of the line at which the budget went negative.
C14_FailCitesTargetAndLine ==
    (rc = Some(1) /\ pend # NoneI /\ pend[1].budget < 0)
    => /\ \E i \in 2..Len(msg) : msg[i] = pend[1].tgt
       /\ \E i \in 2..Len(msg) : msg[i] = ln

-----------------------------------------------------------------------------
(***************************************************************************)
(* Decode validator (test/check_log.py): its own immediate extractors and  *)
(* decode table.  The extractors that share a name with the simulator's    *)
(* are prefixed cl_.                                                       *)
(***************************************************************************)
\* OP: the RTL numbering of the operations (lines 19-33)
OP ==
    [n \in {"ADD", "SUB", "AND", "OR", "XOR", "SLL", "SRL", "SRA", "SLT",
            "SLTU", "ADDI", "ANDI", "ORI", "XORI", "SLLI", "SRLI", "SRAI",
            "SLTI", "SLTIU", "LUI", "AUIPC", "BEQ", "BNE", "BLT", "BGE",
            "BLTU", "BGEU", "JAL", "JALR", "LB", "LH", "LW", "LBU", "LHU",
            "SB", "SH", "SW"} |->
     CASE n = "ADD" -> 3    [] n = "SUB" -> 4    [] n = "AND" -> 5
       [] n = "OR" -> 6     [] n = "XOR" -> 7    [] n = "SLL" -> 8
       [] n = "SRL" -> 9    [] n = "SRA" -> 10   [] n = "SLT" -> 11
       [] n = "SLTU" -> 12  [] n = "ADDI" -> 13  [] n = "ANDI" -> 14
       [] n = "ORI" -> 15   [] n = "XORI" -> 16  [] n = "SLLI" -> 17
       [] n = "SRLI" -> 18  [] n = "SRAI" -> 19  [] n = "SLTI" -> 20
       [] n = "SLTIU" -> 21 [] n = "LUI" -> 22   [] n = "AUIPC" -> 23
       [] n = "BEQ" -> 24   [] n = "BNE" -> 25   [] n = "BLT" -> 26
       [] n = "BGE" -> 27   [] n = "BLTU" -> 28  [] n = "BGEU" -> 29
       [] n = "JAL" -> 30   [] n = "JALR" -> 31  [] n = "LB" -> 32
       [] n = "LH" -> 33    [] n = "LW" -> 34    [] n = "LBU" -> 35
       [] n = "LHU" -> 36   [] n = "SB" -> 37    [] n = "SH" -> 38
       [] n = "SW" -> 39]

\* signext(x, bits): x | (-1 << bits) when bit bits-1 of x is set
signext(x, bits) ==
    IF Bits(x, bits - 1, 1) = 1 THEN OrZ(x, ShlZ(<<-1, 65535>>, bits)) ELSE x

cl_imm_i(ins) == signext(MaskZ(ShrZ(ins, 20), 12), 12)

imm_s_fn(ins) ==
    signext(OrZ(ShlZ(ShrZ(ins, 25), 5), MaskZ(ShrZ(ins, 7), 5)), 12)

cl_imm_b(ins) ==
    LET v == OrZ(ShlZ(ShrZ(ins, 31), 12),
             OrZ(ShlZ(MaskZ(ShrZ(ins, 7), 1), 11),
             OrZ(ShlZ(MaskZ(ShrZ(ins, 25), 6), 5),
                 ShlZ(MaskZ(ShrZ(ins, 8), 4), 1))))
    IN  signext(v, 13)

cl_imm_u(ins) == AndZ(ins, <<65535, 61440>>)     \* ins & 0xFFFFF000

cl_imm_j(ins) ==
    LET v == OrZ(ShlZ(ShrZ(ins, 31), 20),
             OrZ(ShlZ(MaskZ(ShrZ(ins, 12), 8), 12),
             OrZ(ShlZ(MaskZ(ShrZ(ins, 20), 1), 11),
                 ShlZ(MaskZ(ShrZ(ins, 21), 10), 1))))
    IN  signext(v, 21)

\* decode (lines 79-137): <<name, rs1, rs2, rd, imm>>, or <<>> for None.
\* Each opcode block falls through to the next test when none of its lines
\* returns, and so to the final `return None`.
decode(ins) ==
    LET opc == Bits(ins, 0, 7)
        rd  == Bits(ins, 7, 5)
        f3  == Bits(ins, 12, 3)
        rs1 == Bits(ins, 15, 5)
        rs2 == Bits(ins, 20, 5)
        f7  == Bits(ins, 25, 7)
    IN
    CASE opc = 51 /\ f3 = 0 /\ f7 = 0  -> <<"ADD",  rs1, rs2, rd, ZERO>>
      [] opc = 51 /\ f3 = 0 /\ f7 = 32 -> <<"SUB",  rs1, rs2, rd, ZERO>>
      [] opc = 51 /\ f3 = 7            -> <<"AND",  rs1, rs2, rd, ZERO>>
      [] opc = 51 /\ f3 = 6            -> <<"OR",   rs1, rs2, rd, ZERO>>
      [] opc = 51 /\ f3 = 4            -> <<"XOR",  rs1, rs2, rd, ZERO>>
      [] opc = 51 /\ f3 = 1            -> <<"SLL",  rs1, rs2, rd, ZERO>>
      [] opc = 51 /\ f3 = 5 /\ f7 = 0  -> <<"SRL",  rs1, rs2, rd, ZERO>>
      [] opc = 51 /\ f3 = 5 /\ f7 = 32 -> <<"SRA",  rs1, rs2, rd, ZERO>>
      [] opc = 51 /\ f3 = 2            -> <<"SLT",  rs1, rs2, rd, ZERO>>
      [] opc = 51 /\ f3 = 3            -> <<"SLTU", rs1, rs2, rd, ZERO>>
      [] opc = 19 /\ f3 = 0            -> <<"ADDI",  rs1, 0, rd, cl_imm_i(ins)>>
      [] opc = 19 /\ f3 = 7            -> <<"ANDI",  rs1, 0, rd, cl_imm_i(ins)>>
      [] opc = 19 /\ f3 = 6            -> <<"ORI",   rs1, 0, rd, cl_imm_i(ins)>>
      [] opc = 19 /\ f3 = 4            -> <<"XORI",  rs1, 0, rd, cl_imm_i(ins)>>
      [] opc = 19 /\ f3 = 2            -> <<"SLTI",  rs1, 0, rd, cl_imm_i(ins)>>
      [] opc = 19 /\ f3 = 3            -> <<"SLTIU", rs1, 0, rd, cl_imm_i(ins)>>
      [] opc = 19 /\ f3 = 1 /\ f7 = 0  -> <<"SLLI",  rs1, 0, rd, cl_imm_i(ins)>>
      [] opc = 19 /\ f3 = 5 /\ f7 = 0  -> <<"SRLI",  rs1, 0, rd, cl_imm_i(ins)>>
      [] opc = 19 /\ f3 = 5 /\ f7 = 32 -> <<"SRAI",  rs1, 0, rd, cl_imm_i(ins)>>
      [] opc = 3 /\ f3 = 0             -> <<"LB",  rs1, 0, rd, cl_imm_i(ins)>>
      [] opc = 3 /\ f3 = 1             -> <<"LH",  rs1, 0, rd, cl_imm_i(ins)>>
      [] opc = 3 /\ f3 = 2             -> <<"LW",  rs1, 0, rd, cl_imm_i(ins)>>
      [] opc = 3 /\ f3 = 4             -> <<"LBU", rs1, 0, rd, cl_imm_i(ins)>>
      [] opc = 3 /\ f3 = 5             -> <<"LHU", rs1, 0, rd, cl_imm_i(ins)>>
      [] opc = 35 /\ f3 = 0            -> <<"SB", rs1, rs2, 0, imm_s_fn(ins)>>
      [] opc = 35 /\ f3 = 1            -> <<"SH", rs1, rs2, 0, imm_s_fn(ins)>>
      [] opc = 35 /\ f3 = 2            -> <<"SW", rs1, rs2, 0, imm_s_fn(ins)>>
      [] opc = 99 /\ f3 = 0            -> <<"BEQ",  rs1, rs2, 0, cl_imm_b(ins)>>
      [] opc = 99 /\ f3 = 1            -> <<"BNE",  rs1, rs2, 0, cl_imm_b(ins)>>
      [] opc = 99 /\ f3 = 4            -> <<"BLT",  rs1, rs2, 0, cl_imm_b(ins)>>
      [] opc = 99 /\ f3 = 5            -> <<"BGE",  rs1, rs2, 0, cl_imm_b(ins)>>
      [] opc = 99 /\ f3 = 6            -> <<"BLTU", rs1, rs2, 0, cl_imm_b(ins)>>
      [] opc = 99 /\ f3 = 7            -> <<"BGEU", rs1, rs2, 0, cl_imm_b(ins)>>
      [] opc = 111                     -> <<"JAL",   0,   0, rd, cl_imm_j(ins)>>
      [] opc = 103                     -> <<"JALR",  rs1, 0, rd, cl_imm_i(ins)>>
      [] opc = 55                      -> <<"LUI",   0,   0, rd, cl_imm_u(ins)>>
      [] opc = 23                      -> <<"AUIPC", 0,   0, rd, cl_imm_u(ins)>>
      [] OTHER -> <<>>

\* field usage gating (lines 142-176)
uses_rs1(name) ==
    name \in {"ADD", "SUB", "AND", "OR", "XOR", "SLL", "SRL", "SRA", "SLT", "SLTU",
              "ADDI", "ANDI", "ORI", "XORI", "SLLI", "SRLI", "SRAI", "SLTI", "SLTIU",
              "LB", "LH", "LW", "LBU", "LHU", "SB", "SH", "SW",
              "BEQ", "BNE", "BLT", "BGE", "BLTU", "BGEU",
              "JALR"}

uses_rs2(name) ==
    name \in {"ADD", "SUB", "AND", "OR", "XOR", "SLL", "SRL", "SRA", "SLT", "SLTU",
              "SB", "SH", "SW",
              "BEQ", "BNE", "BLT", "BGE", "BLTU", "BGEU"}

writes_rd(name) ==
    name \in {"ADD", "SUB", "AND", "OR", "XOR", "SLL", "SRL", "SRA", "SLT", "SLTU",
              "ADDI", "ANDI", "ORI", "XORI", "SLLI", "SRLI", "SRAI", "SLTI", "SLTIU",
              "LB", "LH", "LW", "LBU", "LHU",
              "JAL", "JALR", "LUI", "AUIPC"}

-----------------------------------------------------------------------------
(***************************************************************************)
(* The two decoders applied to one word.  The words are built from their   *)
(* fields, so that every opcode block meets every funct3 and several       *)
(* funct7 values, legal or not.                                            *)
(***************************************************************************)
OpcodePool == {51, 19, 3, 35, 99, 111, 103, 55, 23, 0, 15, 115}
Funct3Pool == 0..7
Funct7Pool == {0, 32, 1, 127}

DecodeWords ==
    { encode_R(opcode, rd, funct3, rs1, rs2, funct7) :
        opcode \in OpcodePool, rd \in {0, 5}, funct3 \in Funct3Pool,
        rs1 \in {0, 6}, rs2 \in {0, 7}, funct7 \in Funct7Pool }

DecodeInit ==
    /\ call \in [fn : {"decode"}, ins : DecodeWords, pc : {ZERO, Z(8)}]
    /\ result = <<>>

\* the simulator's loader decodes the word (decode_word(w, pc))
ApplyDecodeWord ==
    /\ call.fn = "decode"
    /\ "decode_word" \notin DOMAIN result
    /\ result' = result @@ ("decode_word" :> decode_word(call.ins, call.pc))
    /\ UNCHANGED <<call, simVars, diffVars, redirVars, logVars>>

\* the decode validator looks the word up in its table (decode(ins))
ApplyDecode ==
    /\ call.fn = "decode"
    /\ "decode" \notin DOMAIN result
    /\ result' = result @@ ("decode" :> decode(call.ins))
    /\ UNCHANGED <<call, simVars, diffVars, redirVars, logVars>>

InitDecode == DecodeInit /\ SimIdle /\ DiffIdle /\ RedirIdle /\ LogIdle
NextDecode == ApplyDecodeWord \/ ApplyDecode
SpecDecode == InitDecode /\ [][NextDecode]_vars

(***************************************************************************)
(* Claims about the decoders.                                              *)
(***************************************************************************)
BothDecoded == {"decode_word", "decode"} \subseteq DOMAIN result

\* C15: the two decoders classify every word identically: one decodes it
\* exactly when the other does, and then to the same operation with the
\* same rs1, rs2 and rd wherever the operation uses the field.
C15_DecodersAgree ==
    BothDecoded =>
        LET m   == result["decode_word"].m
            ref == result["decode"]
        IN  /\ (ref = <<>>) <=> result["decode_word"].raised
            /\ ref # <<>> =>
                  /\ m.op = ref[1]
                  /\ uses_rs1(ref[1]) => m.rs1 = ref[2]
                  /\ uses_rs2(ref[1]) => m.rs2 = ref[3]
                  /\ writes_rd(ref[1]) => m.rd = ref[4]

\* the words both decoders accept get the same operation and used fields
C15_AgreeWhereBothDecode ==
    BothDecoded =>
        LET m   == result["decode_word"].m
            ref == result["decode"]
        IN  (ref # <<>> /\ ~result["decode_word"].raised) =>
                  /\ m.op = ref[1]
                  /\ uses_rs1(ref[1]) => m.rs1 = ref[2]
                  /\ uses_rs2(ref[1]) => m.rs2 = ref[3]
                  /\ writes_rd(ref[1]) => m.rd = ref[4]

\* the legal (opcode, funct3, funct7) combinations of RV32I
LegalRV32I(opcode, funct3, funct7) ==
    \/ opcode \in {55, 23, 111}
    \/ opcode = 103 /\ funct3 = 0
    \/ opcode = 99  /\ funct3 \in {0, 1, 4, 5, 6, 7}
    \/ opcode = 3   /\ funct3 \in {0, 1, 2, 4, 5}
    \/ opcode = 35  /\ funct3 \in {0, 1, 2}
    \/ opcode = 19  /\ funct3 \in {0, 2, 3, 4, 6, 7}
    \/ opcode = 19  /\ funct3 = 1 /\ funct7 = 0
    \/ opcode = 19  /\ funct3 = 5 /\ funct7 \in {0, 32}
    \/ opcode = 51  /\ funct7 = 0
    \/ opcode = 51  /\ funct7 = 32 /\ funct3 \in {0, 5}

CallLegal ==
    LegalRV32I(Bits(call.ins, 0, 7), Bits(call.ins, 12, 3), Bits(call.ins, 25, 7))

\* C19: decode_word raises for every word whose (opcode, funct3, funct7) is
\* outside the legal RV32I set; none is returned as a decoded instruction.
C19_IllegalWordsRaise ==
    "decode_word" \in DOMAIN result =>
        (~CallLegal => result["decode_word"].raised)

\* an illegal shift-immediate word came back as a decoded SLLI
C19_IllegalShiftDecoded ==
    /\ "decode_word" \in DOMAIN result
    /\ ~CallLegal
    /\ ~result["decode_word"].raised
    /\ result["decode_word"].m.op = "SLLI"

-----------------------------------------------------------------------------
(***************************************************************************)
(* Decode validator main loop (test/check_log.py lines 199-283).  A log    *)
(* line is kept as what line.split() and parse_kv make of it: whether it   *)
(* starts with "PC=", and for each of the six keys the token's value:      *)
(*   <<>>          the key is absent (kv.get returns None)                 *)
(*   <<"x">>       the don't-care marker (parse_int_maybe returns None)    *)
(*   <<"bad">>     text that int(v, base) rejects with ValueError          *)
(*   <<"int", n>>  text that parses to n                                   *)
(***************************************************************************)
MaxLines == 2      \* longest fetch trace, in lines

Absent  == <<>>
DontCare == <<"x">>
Garbage == <<"bad">>
Num(n)  == <<"int", n>>

Keys == {"PC", "op", "rs1", "rs2", "rd", "imm"}

\* load_hex (lines 38-48): word i of the file sits at pc 4 * i
load_hex(ws) == [p \in { 4 * (i - 1) : i \in 1..Len(ws) } |-> ws[p \div 4 + 1]]

HexImages ==
    { <<ADDI(1, 0, -1), SW(1, 2, 4), LUI(3, 74565), DataWord>>,
      <<ADD(3, 1, 2), BEQ(1, 2, 8), JAL(1, 8)>> }

\* a "PC=" line with every token numeric
KvLine(p, op, rs1, rs2, rd, imm) ==
    [pcline |-> TRUE, PC |-> Num(p), op |-> Num(op), rs1 |-> Num(rs1),
     rs2 |-> Num(rs2), rd |-> Num(rd), imm |-> Num(imm)]

\* the line a frontend agreeing with decode() prints for the word at p, with
\* d added field by field (d = 0 everywhere: the matching line)
RefLine(img, p, d) ==
    LET ref == decode(img[p])
    IN  KvLine(p, OP[ref[1]] + d[1], ref[2] + d[2], ref[3] + d[3],
               ref[4] + d[4], AddZ(u32(ref[5]), Z(d[5])))

Deltas ==
    { d \in [1..5 -> {0, 1}] :
        d[1] + d[2] + d[3] + d[4] + d[5] <= 1 \/ d = [i \in 1..5 |-> 1] }

LinesFor(img) ==
    LET last == 4 * Cardinality(DOMAIN img)
        ok   == KvLine(0, 0, 0, 0, 0, ZERO)
    IN  { RefLine(img, p, d) :
            p \in { q \in DOMAIN img : decode(img[q]) # <<>> }, d \in Deltas }
        \cup { KvLine(p, 0, 0, 0, 0, ZERO) :
                 p \in { q \in DOMAIN img : decode(img[q]) = <<>> } }
        \cup { KvLine(last, 0, 0, 0, 0, ZERO),            \* pc outside the image
               [ok EXCEPT !.pcline = FALSE],              \* no "PC=" prefix
               [ok EXCEPT !.imm = Absent],
               [ok EXCEPT !.rs2 = DontCare],
               [ok EXCEPT !.op = Garbage],
               [ok EXCEPT !.rd = DontCare, !.imm = Garbage] }

\* the line the loop reads next
Line == trace[pos + 1]
Reading == cl_state = "scanning" /\ pos < Len(trace)

\* line 227: a key is missing
KeyMissing(l) == \E k \in Keys : l[k] = Absent
\* lines 231-236: some int(v, base) raises ValueError
KeyRaises(l) == \E k \in Keys : l[k] = Garbage
\* line 239: some value parsed to None
KeyDontCare(l) == \E k \in Keys : l[k] = DontCare

LogInit ==
    /\ \E img \in HexImages :
          /\ mem_hex = load_hex(img)
          /\ trace \in SeqsUpTo(LinesFor(load_hex(img)), MaxLines)
    /\ pos = 0 /\ bad = 0 /\ seen = 0
    /\ skipped_parse = 0 /\ skipped_not_in_hex = 0
    /\ cl_state = "scanning" /\ summary = <<>>

\* line 210: a line that does not start with "PC=" is passed over
SkipOtherLine ==
    /\ Reading /\ ~Line.pcline
    /\ pos' = pos + 1
    /\ UNCHANGED <<mem_hex, trace, bad, seen, skipped_parse,
                   skipped_not_in_hex, cl_state, summary>>
    /\ UNCHANGED <<simVars, diffVars, redirVars, callVars>>

\* lines 227-229: a key is missing
SkipMissingKey ==
    /\ Reading /\ Line.pcline /\ KeyMissing(Line)
    /\ skipped_parse' = skipped_parse + 1
    /\ pos' = pos + 1
    /\ UNCHANGED <<mem_hex, trace, bad, seen, skipped_not_in_hex,
                   cl_state, summary>>
    /\ UNCHANGED <<simVars, diffVars, redirVars, callVars>>

\* lines 231-236: int(v, base) raises ValueError, which nothing catches
RaiseValueError ==
    /\ Reading /\ Line.pcline /\ ~KeyMissing(Line) /\ KeyRaises(Line)
    /\ cl_state' = "raised"
    /\ pos' = pos + 1
    /\ UNCHANGED <<mem_hex, trace, bad, seen, skipped_parse,
                   skipped_not_in_hex, summary>>
    /\ UNCHANGED <<simVars, diffVars, redirVars, callVars>>

\* lines 239-241: a value is the don't-care marker
SkipDontCare ==
    /\ Reading /\ Line.pcline /\ ~KeyMissing(Line) /\ ~KeyRaises(Line)
    /\ KeyDontCare(Line)
    /\ skipped_parse' = skipped_parse + 1
    /\ pos' = pos + 1
    /\ UNCHANGED <<mem_hex, trace, bad, seen, skipped_not_in_hex,
                   cl_state, summary>>
    /\ UNCHANGED <<simVars, diffVars, redirVars, callVars>>

\* every token of the line parsed to an integer
Parsed(l) == l.pcline /\ ~KeyMissing(l) /\ ~KeyRaises(l) /\ ~KeyDontCare(l)

\* lines 243-246: the pc is not in the image
SkipNotInHex ==
    /\ Reading /\ Parsed(Line)
    /\ Line.PC[2] \notin DOMAIN mem_hex
    /\ skipped_not_in_hex' = skipped_not_in_hex + 1
    /\ pos' = pos + 1
    /\ UNCHANGED <<mem_hex, trace, bad, seen, skipped_parse, cl_state, summary>>
    /\ UNCHANGED <<simVars, diffVars, redirVars, callVars>>

\* the data line counted as checked
IgnoreData_Checked ==
    /\ Reading /\ Parsed(Line)
    /\ Line.PC[2] \in DOMAIN mem_hex
    /\ decode(mem_hex[Line.PC[2]]) = <<>>
    /\ seen' = seen + 1
    /\ pos' = pos + 1
    /\ UNCHANGED <<mem_hex, trace, bad, skipped_parse,
                   skipped_not_in_hex, cl_state, summary>>
    /\ UNCHANGED <<simVars, diffVars, redirVars, callVars>>

\* lines 248-251: the word at pc does not decode (padding / data)
IgnoreData ==
    /\ Reading /\ Parsed(Line)
    /\ Line.PC[2] \in DOMAIN mem_hex
    /\ decode(mem_hex[Line.PC[2]]) = <<>>
    /\ pos' = pos + 1
    /\ UNCHANGED <<mem_hex, trace, bad, seen, skipped_parse,
                   skipped_not_in_hex, cl_state, summary>>
    /\ UNCHANGED <<simVars, diffVars, redirVars, callVars>>

\* a comparison of every field, used or not
FieldMismatch_AllFields(l, ref) ==
    \/ l.op[2] # OP[ref[1]]
    \/ l.rs1[2] # ref[2]
    \/ l.rs2[2] # ref[3]
    \/ l.rd[2] # ref[4]
    \/ u32(l.imm[2]) # u32(ref[5])

\* lines 253-270: mismatch, the register fields gated by their use
FieldMismatch(l, ref) ==
    \/ l.op[2] # OP[ref[1]]
    \/ (uses_rs1(ref[1]) /\ l.rs1[2] # ref[2])
    \/ (uses_rs2(ref[1]) /\ l.rs2[2] # ref[3])
    \/ (writes_rd(ref[1]) /\ l.rd[2] # ref[4])
    \/ u32(l.imm[2]) # u32(ref[5])

\* lines 248-278: the line is compared with the golden decode
CompareLine ==
    /\ Reading /\ Parsed(Line)
    /\ Line.PC[2] \in DOMAIN mem_hex
    /\ decode(mem_hex[Line.PC[2]]) # <<>>
    /\ bad' = IF FieldMismatch(Line, decode(mem_hex[Line.PC[2]]))
              THEN bad + 1 ELSE bad
    /\ seen' = seen + 1
    /\ pos' = pos + 1
    /\ UNCHANGED <<mem_hex, trace, skipped_parse, skipped_not_in_hex,
                   cl_state, summary>>
    /\ UNCHANGED <<simVars, diffVars, redirVars, callVars>>

\* lines 280-283: the final summary
Summarise ==
    /\ cl_state = "scanning" /\ pos = Len(trace)
    /\ summary' = IF bad = 0
                  THEN <<"PASS", seen, skipped_parse, skipped_not_in_hex>>
                  ELSE <<"FAIL", bad, seen, skipped_parse, skipped_not_in_hex>>
    /\ cl_state' = "done"
    /\ UNCHANGED <<mem_hex, trace, pos, bad, seen, skipped_parse,
                   skipped_not_in_hex>>
    /\ UNCHANGED <<simVars, diffVars, redirVars, callVars>>

InitLog == LogInit /\ SimIdle /\ DiffIdle /\ RedirIdle /\ CallIdle

NextLog ==
    \/ SkipOtherLine \/ SkipMissingKey \/ RaiseValueError \/ SkipDontCare
    \/ SkipNotInHex \/ IgnoreData \/ CompareLine \/ Summarise

SpecLog == InitLog /\ [][NextLog]_vars

(***************************************************************************)
(* Claims about the decode validator.                                      *)
(***************************************************************************)
\* the register fields an RV32I word uses, from its instruction format:
\* R rs1 rs2 rd; I (OP-IMM, loads, JALR) rs1 rd; S and B rs1 rs2; U and J rd
FormatUses(ins) ==
    LET opc == Bits(ins, 0, 7)
    IN  [rs1 |-> opc \in {51, 19, 3, 103, 35, 99},
         rs2 |-> opc \in {51, 35, 99},
         rd  |-> opc \in {51, 19, 3, 103, 55, 23, 111}]

\* line k of the trace went through the comparison
Compared(k) ==
    /\ Parsed(trace[k])
    /\ trace[k].PC[2] \in DOMAIN mem_hex
    /\ decode(mem_hex[trace[k].PC[2]]) # <<>>

\* line k differs from the golden decode in its op, its immediate (as 32
\* bits) or a register field its format uses
DiffersInUsedField(k) ==
    LET l   == trace[k]
        ins == mem_hex[l.PC[2]]
        ref == decode(ins)
        use == FormatUses(ins)
    IN  \/ l.op[2] # OP[ref[1]]
        \/ u32(l.imm[2]) # u32(ref[5])
        \/ use.rs1 /\ l.rs1[2] # ref[2]
        \/ use.rs2 /\ l.rs2[2] # ref[3]
        \/ use.rd  /\ l.rd[2]  # ref[4]

\* line k differs from the golden decode in a register field its format
\* does not use, and in nothing else
DiffersInUnusedOnly(k) ==
    LET l   == trace[k]
        ref == decode(mem_hex[l.PC[2]])
    IN  /\ ~DiffersInUsedField(k)
        /\ (l.rs1[2] # ref[2] \/ l.rs2[2] # ref[3] \/ l.rd[2] # ref[4])

\* C16: the mismatches counted are exactly the compared lines that differ
\* from the golden decode in op, immediate or a register field the decoded
\* operation uses; a line that differs only in unused register fields is
\* never counted, a line wrong in a used field always is.
C16_OnlyUsedFieldsCompared ==
    /\ bad = Cardinality({ k \in 1..pos : Compared(k) /\ DiffersInUsedField(k) })
    /\ seen = Cardinality({ k \in 1..pos : Compared(k) })

\* one compared line with junk in an unused field went uncounted and one
\* with a wrong used register field was counted
C16_Witness ==
    /\ cl_state = "done" /\ summary = <<"FAIL", 1, 2, 0, 0>>
    /\ \E k \in 1..pos : Compared(k) /\ DiffersInUnusedOnly(k)
    /\ \E k \in 1..pos :
          /\ Compared(k)
          /\ trace[k].op[2] = OP[decode(mem_hex[trace[k].PC[2]])[1]]
          /\ DiffersInUsedField(k)

\* a "PC=" line that cannot be compared: a key is missing, a value is not a
\* number (the don't-care x or other text), or the pc is outside the image
Unusable(l) ==
    l.pcline /\ (~Parsed(l) \/ l.PC[2] \notin DOMAIN mem_hex)

\* C17: every unparsable, don't-care or out-of-image line read so far was
\* counted as skipped, none as a mismatch, and the validator goes on to the
\* next line and to its final summary.
C17_BadLinesSkipped ==
    /\ skipped_parse + skipped_not_in_hex
         = Cardinality({ k \in 1..pos : Unusable(trace[k]) })
    /\ bad <= Cardinality({ k \in 1..pos : ~Unusable(trace[k]) })
    /\ cl_state # "raised"
    /\ (cl_state = "scanning" /\ pos = Len(trace)) => ENABLED Summarise

\* what the loop does keep: lines with a missing key or an x, and parsed
\* lines outside the image, are counted as skipped and the scan goes on;
\* a value that is neither a number nor x ends the run with ValueError.
C17_SkippedUnlessValueError ==
    /\ skipped_parse + skipped_not_in_hex
         = Cardinality({ k \in 1..pos :
                Unusable(trace[k])
                /\ (KeyMissing(trace[k]) \/ ~KeyRaises(trace[k])) })
    /\ cl_state = "raised" <=>
          (pos >= 1 /\ ~KeyMissing(trace[pos]) /\ KeyRaises(trace[pos])
           /\ trace[pos].pcline)

\* the run died on a line whose op is not a number
C17_DiedOnUnparsableLine ==
    /\ cl_state = "raised"
    /\ trace[pos].op = Garbage
    /\ pos < Len(trace)
    /\ summary = <<>>

-----------------------------------------------------------------------------
(***************************************************************************)
(* Encode / decode round trip: one encoder call, then the decoder on the   *)
(* word it produced.                                                       *)
(***************************************************************************)
\* every register index in every position, the other two at 0 or 31
RegTriples ==
    { t \in (0..31) \X (0..31) \X (0..31) :
        Cardinality({ i \in 1..3 : t[i] \in {0, 31} }) >= 2 }

\* 0, -1, minimum and maximum of a signed field of the given width, and the
\* nearest even values
BoundaryImms(width) ==
    { 0, -1, -(2^(width - 1)), 2^(width - 1) - 1, -2, 2^(width - 1) - 2 }

\* a call: fn, opcode, rd, funct3, rs1, rs2, funct7, imm (unused ones 0)
EncCall(fn, opcode, funct3, funct7, regs3, imm) ==
    [fn |-> fn, opcode |-> opcode, funct3 |-> funct3, funct7 |-> funct7,
     rd |-> regs3[1], rs1 |-> regs3[2], rs2 |-> regs3[3], imm |-> Z(imm)]

EncodeCalls ==
    { EncCall("encode_R", 51, f[1], f[2], t, 0) :
        f \in {<<0, 0>>, <<0, 32>>, <<7, 0>>, <<5, 32>>}, t \in RegTriples }
    \cup { EncCall("encode_I", o[1], o[2], 0, <<t[1], t[2], 0>>, i) :
        o \in {<<19, 0>>, <<19, 7>>, <<3, 2>>, <<103, 0>>},
        t \in { u \in RegTriples : u[3] = 0 }, i \in BoundaryImms(12) }
    \cup { EncCall("encode_S", 35, f, 0, <<0, t[2], t[3]>>, i) :
        f \in {0, 2}, t \in { u \in RegTriples : u[1] = 0 },
        i \in BoundaryImms(12) }
    \cup { EncCall("encode_B", 99, f, 0, <<0, t[2], t[3]>>, i) :
        f \in {0, 5}, t \in { u \in RegTriples : u[1] = 0 },
        i \in BoundaryImms(13) }
    \cup { EncCall("encode_U", o, 0, 0, <<rd, 0, 0>>, i) :
        o \in {55, 23}, rd \in 0..31, i \in BoundaryImms(20) }
    \cup { EncCall("encode_J", 111, 0, 0, <<rd, 0, 0>>, i) :
        rd \in 0..31, i \in BoundaryImms(21) }

EncodeInit ==
    /\ call \in EncodeCalls
    /\ result = <<>>

Fresh == DOMAIN result = {}

EncodeR ==
    /\ call.fn = "encode_R" /\ Fresh
    /\ result' = ("word" :> encode_R(call.opcode, call.rd, call.funct3,
                                     call.rs1, call.rs2, call.funct7))
    /\ UNCHANGED <<call, simVars, diffVars, redirVars, logVars>>

EncodeI ==
    /\ call.fn = "encode_I" /\ Fresh
    /\ result' = ("word" :> encode_I(call.opcode, call.rd, call.funct3,
                                     call.rs1, call.imm))
    /\ UNCHANGED <<call, simVars, diffVars, redirVars, logVars>>

EncodeU ==
    /\ call.fn = "encode_U" /\ Fresh
    /\ result' = ("word" :> encode_U(call.opcode, call.rd, call.imm))
    /\ UNCHANGED <<call, simVars, diffVars, redirVars, logVars>>

EncodeB ==
    /\ call.fn = "encode_B" /\ Fresh
    /\ result' = ("word" :> encode_B(call.opcode, call.funct3, call.rs1,
                                     call.rs2, call.imm))
    /\ UNCHANGED <<call, simVars, diffVars, redirVars, logVars>>

EncodeJ ==
    /\ call.fn = "encode_J" /\ Fresh
    /\ result' = ("word" :> encode_J(call.opcode, call.rd, call.imm))
    /\ UNCHANGED <<call, simVars, diffVars, redirVars, logVars>>

EncodeS ==
    /\ call.fn = "encode_S" /\ Fresh
    /\ result' = ("word" :> encode_S(call.opcode, call.funct3, call.rs1,
                                     call.rs2, call.imm))
    /\ UNCHANGED <<call, simVars, diffVars, redirVars, logVars>>

\* the immediate extractor of the call's format (lines 180-202)
ImmOf(fn, w) ==
    CASE fn = "encode_I" -> imm_i(w)
      [] fn = "encode_S" -> imm_s(w)
      [] fn = "encode_B" -> imm_b(w)
      [] fn = "encode_U" -> imm_u(w)
      [] fn = "encode_J" -> imm_j(w)
      [] OTHER -> ZERO

\* the encoded word goes through the immediate extractor of its format and
\* through decode_word at pc 0
DecodeEncoded ==
    /\ DOMAIN result = {"word"}
    /\ result' = result @@ ("imm" :> ImmOf(call.fn, result["word"]))
                        @@ ("dec" :> decode_word(result["word"], ZERO))
    /\ UNCHANGED <<call, simVars, diffVars, redirVars, logVars>>

InitCodec == EncodeInit /\ SimIdle /\ DiffIdle /\ RedirIdle /\ LogIdle

NextCodec ==
    \/ EncodeR \/ EncodeI \/ EncodeU \/ EncodeB \/ EncodeJ \/ EncodeS
    \/ DecodeEncoded

SpecCodec == InitCodec /\ [][NextCodec]_vars

(***************************************************************************)
(* Claims about the round trip.                                            *)
(***************************************************************************)
RoundTripDone == DOMAIN result = {"word", "imm", "dec"}

\* the width of the immediate field of each format
ImmWidth(fn) ==
    CASE fn = "encode_I" -> 12 [] fn = "encode_S" -> 12 [] fn = "encode_B" -> 13
      [] fn = "encode_U" -> 20 [] fn = "encode_J" -> 21 [] OTHER -> 1

\* the call's immediate is one of 0, -1, minimum, maximum of its width
AtBoundary ==
    \E i \in {0, -1, -(2^(ImmWidth(call.fn) - 1)), 2^(ImmWidth(call.fn) - 1) - 1} :
        call.imm = Z(i)

\* the operation RV32I assigns to the call's opcode, funct3 and funct7
CallOp ==
    CASE call.opcode = 51 /\ call.funct3 = 0 /\ call.funct7 = 0  -> "ADD"
      [] call.opcode = 51 /\ call.funct3 = 0 /\ call.funct7 = 32 -> "SUB"
      [] call.opcode = 51 /\ call.funct3 = 7 /\ call.funct7 = 0  -> "AND"
      [] call.opcode = 51 /\ call.funct3 = 5 /\ call.funct7 = 32 -> "SRA"
      [] call.opcode = 19 /\ call.funct3 = 0 -> "ADDI"
      [] call.opcode = 19 /\ call.funct3 = 7 -> "ANDI"
      [] call.opcode = 3  /\ call.funct3 = 2 -> "LW"
      [] call.opcode = 103 -> "JALR"
      [] call.opcode = 35 /\ call.funct3 = 0 -> "SB"
      [] call.opcode = 35 /\ call.funct3 = 2 -> "SW"
      [] call.opcode = 99 /\ call.funct3 = 0 -> "BEQ"
      [] call.opcode = 99 /\ call.funct3 = 5 -> "BGE"
      [] call.opcode = 55 -> "LUI"
      [] call.opcode = 23 -> "AUIPC"
      [] call.opcode = 111 -> "JAL"

\* decode_word gives back the operation and the registers of the call
FieldsBack ==
    LET d == result["dec"]
    IN  /\ ~d.raised
        /\ d.m.op = CallOp
        /\ call.fn \in {"encode_R", "encode_I", "encode_U", "encode_J"}
              => d.m.rd = call.rd
        /\ call.fn \in {"encode_R", "encode_I", "encode_S", "encode_B"}
              => d.m.rs1 = call.rs1
        /\ call.fn \in {"encode_R", "encode_S", "encode_B"}
              => d.m.rs2 = call.rs2

\* C18: for every format, each boundary immediate (0, -1, minimum, maximum)
\* and every register index, the immediate extractor of the format gives
\* back the encoded immediate and decode_word the encoded registers and
\* operation.
C18_RoundTripAllBoundaries ==
    (RoundTripDone /\ AtBoundary) =>
        /\ FieldsBack
        /\ call.fn # "encode_R" => result["imm"] = call.imm

\* the immediate with bit 0 cleared
Even(z) == <<z[1], z[2] - (z[2] % 2)>>

\* C18: registers and operation always come back; imm_i and imm_s give back
\* every 12-bit immediate; imm_b and imm_j give back the immediate with bit
\* 0 cleared (so exactly the even ones), and decode_word the same value as
\* target at pc 0; imm_u gives the 20-bit field shifted left by 12 and
\* decode_word the field as an unsigned 20-bit number.
C18_RoundTripRepresentable ==
    RoundTripDone =>
        /\ FieldsBack
        /\ call.fn \in {"encode_I", "encode_S"} =>
              /\ result["imm"] = call.imm
              /\ result["dec"].m.imm = call.imm
        /\ call.fn \in {"encode_B", "encode_J"} =>
              /\ result["imm"] = Even(call.imm)
              /\ result["dec"].m.target_pc = Even(call.imm)
        /\ call.fn = "encode_U" =>
              /\ result["imm"] = ShlZ(MaskZ(call.imm, 20), 12)
              /\ result["dec"].m.imm = MaskZ(call.imm, 20)

\* a branch encoded with the most negative 13-bit offset has been decoded
C18_Witness ==
    /\ RoundTripDone
    /\ call.fn = "encode_B" /\ call.imm = Z(-4096) /\ call.rs1 = 31
    /\ result["imm"] = call.imm
    /\ result["dec"].m.op = "BEQ"

-----------------------------------------------------------------------------
(***************************************************************************)
(* Branch resolution: one branch word decoded at pc and executed on a      *)
(* register file holding the operands in x1 and x2.                        *)
(***************************************************************************)
\* 32-bit operand values around the signed and unsigned boundaries
OperandPool ==
    { ZERO, Z(1), Z(5), <<32767, 65535>>, <<32768, 0>>, <<32768, 1>>,
      <<65535, 65535>> }

\* funct3 of BEQ, BNE, BLT, BGE, BLTU, BGEU
BranchFunct3 == {0, 1, 4, 5, 6, 7}

BranchInit ==
    /\ call \in [fn : {"branch"}, funct3 : BranchFunct3,
                 rs1 : {0, 1, 2}, rs2 : {1, 2},
                 a : OperandPool, b : OperandPool,
                 pc : {Z(8), Z(16)}, off : {8, -8}]
    /\ result = <<>>

\* the register file of the call
BranchRegs == [i \in 0..31 |-> IF i = 1 THEN call.a ELSE IF i = 2 THEN call.b ELSE ZERO]

\* the decoded branch (decode_word resolves target_pc = pc + offset)
BranchMeta ==
    decode_word(encode_B(99, call.funct3, call.rs1, call.rs2, Z(call.off)), call.pc).m

\* lines 770-789: the branch is executed
ExecBranch ==
    /\ call.fn = "branch" /\ DOMAIN result = {}
    /\ result' = ("out" :> Exec(BranchMeta, call.pc, BranchRegs, EmptyMem))
    /\ UNCHANGED <<call, simVars, diffVars, redirVars, logVars>>

InitBranch == BranchInit /\ SimIdle /\ DiffIdle /\ RedirIdle /\ LogIdle
NextBranch == ExecBranch
SpecBranch == InitBranch /\ [][NextBranch]_vars

(***************************************************************************)
(* Claims about branch resolution.                                         *)
(***************************************************************************)
\* the value a source register reads
SrcValue(i) == IF i = 0 THEN ZERO ELSE BranchRegs[i]

\* unsigned and two's-complement order of two 32-bit values <<hi, lo>>
UnsignedLt(x, y) == x[1] < y[1] \/ (x[1] = y[1] /\ x[2] < y[2])
SignedLt(x, y) ==
    LET nx == x[1] >= 32768
        ny == y[1] >= 32768
    IN  IF nx # ny THEN nx ELSE UnsignedLt(x, y)

\* the condition of the call's branch on its two source registers
BranchCondition ==
    LET x == SrcValue(call.rs1)
        y == SrcValue(call.rs2)
    IN  CASE call.funct3 = 0 -> x = y
          [] call.funct3 = 1 -> x # y
          [] call.funct3 = 4 -> SignedLt(x, y)
          [] call.funct3 = 5 -> ~SignedLt(x, y)
          [] call.funct3 = 6 -> UnsignedLt(x, y)
          [] call.funct3 = 7 -> ~UnsignedLt(x, y)

\* C20: for each of BEQ, BNE, BLT, BGE, BLTU, BGEU the next pc is the
\* branch target (pc + offset) exactly when the condition holds on the two
\* source registers (equality, signed order, unsigned order), and pc + 4
\* otherwise; a branch writes no register value.
C20_BranchTakenIffCondition ==
    "out" \in DOMAIN result =>
        LET out == result["out"]
        IN  /\ out.err = ""
            /\ out.rd_data = ZERO
            /\ out.next_pc = IF BranchCondition
                             THEN AddZ(call.pc, Z(call.off))
                             ELSE AddZ(call.pc, Z(4))

\* BLT taken backwards on 0x80000000 < 0x7FFFFFFF, which unsigned order
\* would not take
C20_Witness ==
    /\ "out" \in DOMAIN result
    /\ call.funct3 = 4 /\ call.rs1 = 1 /\ call.rs2 = 2
    /\ call.a = <<32768, 0>> /\ call.b = <<32767, 65535>>
    /\ call.off = -8
    /\ result["out"].next_pc = SubZ(call.pc, Z(8))

-----------------------------------------------------------------------------
(***************************************************************************)
(* One loop body of the simulator on chosen operands: the instruction is   *)
(* the metadata an Asm method records (Meta(op, rd, rs1, rs2, imm) with    *)
(* rs1 = x1 and rs2 = x2), x1 and x2 hold the operands.                    *)
(***************************************************************************)
ExecOps == {"JALR", "SLL", "SRL", "SRA", "SLLI", "SRLI", "SRAI",
            "ADD", "SUB", "ADDI", "AUIPC"}

\* the second operand: shift amounts around 32 and full-width values
Operand2Pool ==
    { ZERO, Z(1), Z(31), Z(32), Z(33), <<32768, 0>>, <<65535, 65535>> }

\* immediates as the Asm methods receive them
ExecImmPool ==
    { Z(0), Z(1), Z(-1), Z(2047), Z(-2048), Z(31), Z(32), Z(33) }

ExecInit ==
    /\ call \in [fn : {"exec"}, op : ExecOps, rd : {0, 1, 3},
                 a : OperandPool, b : Operand2Pool, imm : ExecImmPool,
                 pc : {ZERO, Z(8)}]
    /\ result = <<>>

\* the register file of the call
ExecRegs == [i \in 0..31 |-> IF i = 1 THEN call.a ELSE IF i = 2 THEN call.b ELSE ZERO]

\* lines 377-550: the metadata the Asm method of call.op records
ExecMeta ==
    IF call.op \in {"ADD", "SUB", "SLL", "SRL", "SRA"}
    THEN Meta(call.op, call.rd, 1, 2, ZERO, None)
    ELSE IF call.op = "AUIPC"
    THEN Meta(call.op, call.rd, 0, 0, call.imm, None)
    ELSE Meta(call.op, call.rd, 1, 0, call.imm, None)

\* lines 699-863: the instruction is executed, committed and recorded
ExecOne ==
    /\ call.fn = "exec" /\ DOMAIN result = {}
    /\ LET o  == Exec(ExecMeta, call.pc, ExecRegs, EmptyMem)
           rf == Commit(ExecRegs, call.rd, o.rd_data)
       IN  result' = ("out" :> o @@ "regs" :> rf @@
                      "entry" :> CommitEntry(0, call.pc, ZERO, call.rd,
                                             o.rd_data, rf, <<>>))
    /\ UNCHANGED <<call, simVars, diffVars, redirVars, logVars>>

InitExec == ExecInit /\ SimIdle /\ DiffIdle /\ RedirIdle /\ LogIdle
NextExec == ExecOne
SpecExec == InitExec /\ [][NextExec]_vars

(***************************************************************************)
(* Claims about single instructions, stated on 32-bit values <<hi, lo>>    *)
(* with both halves in 0..65535.                                           *)
(***************************************************************************)
Executed == call.fn = "exec" /\ "out" \in DOMAIN result

Is32(x) == x[1] \in 0..65535 /\ x[2] \in 0..65535

\* (x + y) mod 2^32, the two's complement of y, and (x - y) mod 2^32
Add32(x, y) ==
    LET lo == x[2] + y[2]
    IN  <<(x[1] + y[1] + (lo \div 65536)) % 65536, lo % 65536>>
Neg32(y) == Add32(<<65535 - y[1], 65535 - y[2]>>, <<0, 1>>)
Sub32(x, y) == Add32(x, Neg32(y))

\* the 12-bit field of an immediate, and its sign extension to 32 bits
Field12(imm) == imm[2] % 4096
SignExt12(imm) ==
    IF Field12(imm) >= 2048 THEN <<65535, 61440 + Field12(imm)>>
    ELSE <<0, Field12(imm)>>

\* bit i of a 32-bit value
BitOf(x, i) == IF i < 16 THEN (x[2] \div (2^i)) % 2 ELSE (x[1] \div (2^(i - 16))) % 2

\* C21: for every rs1 value and every 12-bit immediate, JALR sets the next
\* pc to (rs1 + sign_extend(imm)) mod 2^32 with bit 0 cleared, also when the
\* sum is odd, and commits pc + 4 to rd (x0 stays zero).
C21_JalrClearsBit0 ==
    (Executed /\ call.op = "JALR") =>
        LET out == result["out"]
            sum == Add32(call.a, SignExt12(call.imm))
            lnk == Add32(call.pc, <<0, 4>>)
        IN  /\ out.err = ""
            /\ out.next_pc = <<sum[1], sum[2] - (sum[2] % 2)>>
            /\ out.rd_data = lnk
            /\ result["regs"][call.rd] = IF call.rd = 0 THEN ZERO ELSE lnk
            /\ result["entry"].rd_data = IF call.rd = 0 THEN ZERO ELSE lnk

\* x1 = 5 and imm = -2048 give the odd sum 0xFFFFF805 (through the wrap of
\* the sign extension); the jump goes to 0xFFFFF804
C21_Witness ==
    /\ Executed /\ call.op = "JALR"
    /\ call.a = Z(5) /\ call.imm = Z(-2048) /\ call.rd = 3
    /\ result["out"].next_pc = <<65535, 63492>>
    /\ result["regs"][3] = Add32(call.pc, <<0, 4>>)

\* the shift amount of the call: low 5 bits of x2 for the register forms,
\* low 5 bits of the immediate for the immediate forms
ShiftOps == {"SLL", "SRL", "SRA", "SLLI", "SRLI", "SRAI"}
ShiftAmount ==
    IF call.op \in {"SLL", "SRL", "SRA"} THEN call.b[2] % 32 ELSE call.imm[2] % 32

\* bit i of the shifted value, from the bits of x1
ShiftedBit(i) ==
    LET s == ShiftAmount
    IN  IF call.op \in {"SLL", "SLLI"}
        THEN (IF i >= s THEN BitOf(call.a, i - s) ELSE 0)
        ELSE IF i + s <= 31 THEN BitOf(call.a, i + s)
        ELSE IF call.op \in {"SRA", "SRAI"} THEN BitOf(call.a, 31)
        ELSE 0

\* C22: SLL/SRL/SRA use only the low 5 bits of the rs2 value and
\* SLLI/SRLI/SRAI only the low 5 bits of the immediate as the shift amount
\* (a shift by 32 acts as a shift by 0, by 33 as by 1); SRA/SRAI replicate
\* bit 31, SRL/SRLI shift in zeros, and every result is a 32-bit value.
C22_ShiftsUseLow5Bits ==
    (Executed /\ call.op \in ShiftOps) =>
        LET v == result["out"].rd_data
        IN  /\ result["out"].err = ""
            /\ Is32(v)
            /\ \A i \in 0..31 : BitOf(v, i) = ShiftedBit(i)

\* SRA of 0x80000000 by x2 = 33 gives 0xC0000000: one position, sign kept
C22_Witness ==
    /\ Executed /\ call.op = "SRA"
    /\ call.a = <<32768, 0>> /\ call.b = Z(33)
    /\ result["out"].rd_data = <<49152, 0>>

-----------------------------------------------------------------------------
(***************************************************************************)
(* Memory accesses.  Two kinds of call:                                    *)
(*   "mem_rw"   mem_write(mem, addr, size, val) then mem_read(mem, addr,   *)
(*              size) on a memory that may already hold bytes;             *)
(*   "mem_prog" a store of x2 at 0(x1), then possibly a narrower store of  *)
(*              x3 at k(x1), then a load at j(x1), each executed by the    *)
(*              simulator's loop body on an initially empty memory.        *)
(***************************************************************************)
\* addresses: aligned, unaligned, and two whose accesses wrap past 2^32 - 1
AddrPool == { ZERO, Z(257), <<65535, 65534>>, <<65535, 65535>> }

\* stored values: distinct bytes, sign bits of a byte and of a halfword
ValuePool ==
    { <<4660, 22136>>, <<65535, 65535>>, Z(128), <<0, 32768>>,
      <<43981, 61184>>, Z(-1) }

\* memories before the write: empty, and with 0xAA bytes around address 0
BaseMems ==
    { EmptyMem,
      mem_write(mem_write(EmptyMem, ZERO, 4, <<43690, 43690>>),
                <<65535, 65532>>, 4, <<43690, 43690>>) }

StoreWidth(op) == CASE op = "SB" -> 1 [] op = "SH" -> 2 [] op = "SW" -> 4
LoadWidth(op) ==
    CASE op \in {"LB", "LBU"} -> 1 [] op \in {"LH", "LHU"} -> 2 [] op = "LW" -> 4

MemInit ==
    /\ call \in
         [fn : {"mem_rw"}, base : BaseMems, addr : AddrPool,
          size : {1, 2, 4}, val : ValuePool]
         \cup
         [fn : {"mem_prog"}, x1 : AddrPool \ {Z(257)},
          x2 : {<<4660, 22136>>, Z(128), <<0, 32768>>, <<65535, 65535>>},
          st : {"SB", "SH", "SW"},
          st2 : {"none", "SB", "SH"}, k : 0..3, x3 : {Z(171), <<0, 52719>>},
          ld : {"LB", "LBU", "LH", "LHU", "LW"}, j : 0..4]
    /\ result = <<>>

\* lines 656-665: the write and the read that follows it
WriteRead ==
    /\ call.fn = "mem_rw" /\ DOMAIN result = {}
    /\ LET m == mem_write(call.base, call.addr, call.size, call.val)
       IN  result' = ("mem" :> m @@ "read" :> mem_read(m, call.addr, call.size))
    /\ UNCHANGED <<call, simVars, diffVars, redirVars, logVars>>

\* the register file of a "mem_prog" call
MemRegs ==
    [i \in 0..31 |-> IF i = 1 THEN call.x1 ELSE IF i = 2 THEN call.x2
                     ELSE IF i = 3 THEN call.x3 ELSE ZERO]

\* lines 826-839: the first store, Meta(op, 0, rs1, rs2, imm) of Asm.sb/sh/sw
ExecStore ==
    /\ call.fn = "mem_prog" /\ DOMAIN result = {}
    /\ result' = ("m1" :> Exec(Meta(call.st, 0, 1, 2, ZERO, None), ZERO,
                               MemRegs, EmptyMem).mem)
    /\ UNCHANGED <<call, simVars, diffVars, redirVars, logVars>>

\* the second, narrower store at k(x1)
ExecOverlay ==
    /\ call.fn = "mem_prog" /\ DOMAIN result = {"m1"} /\ call.st2 # "none"
    /\ result' = (result @@
                  "m2" :> Exec(Meta(call.st2, 0, 1, 3, Z(call.k), None), Z(4),
                               MemRegs, result["m1"]).mem)
    /\ UNCHANGED <<call, simVars, diffVars, redirVars, logVars>>

\* lines 801-824 and 847-860: the load at j(x1) into x4 and its commit
ExecLoad ==
    /\ call.fn = "mem_prog"
    /\ DOMAIN result = (IF call.st2 = "none" THEN {"m1"} ELSE {"m1", "m2"})
    /\ LET mm == IF call.st2 = "none" THEN result["m1"] ELSE result["m2"]
           o  == Exec(Meta(call.ld, 4, 1, 0, Z(call.j), None), Z(8), MemRegs, mm)
           rf == Commit(MemRegs, 4, o.rd_data)
       IN  result' = (result @@ "ld" :> o @@
                      "entry" :> CommitEntry(2, Z(8), ZERO, 4, o.rd_data, rf, <<>>))
    /\ UNCHANGED <<call, simVars, diffVars, redirVars, logVars>>

InitMem == MemInit /\ SimIdle /\ DiffIdle /\ RedirIdle /\ LogIdle
NextMem == WriteRead \/ ExecStore \/ ExecOverlay \/ ExecLoad
SpecMem == InitMem /\ [][NextMem]_vars

(***************************************************************************)
(* Claims about memory.                                                    *)
(***************************************************************************)
\* v mod 2^(8n) as a 32-bit value, n in {1, 2, 4}
LowBytes(v, n) ==
    CASE n = 1 -> <<0, v[2] % 256>>
      [] n = 2 -> <<0, v[2]>>
      [] n = 4 -> <<v[1] % 65536, v[2]>>

\* C23: for every address A in 0..2^32-1 (aligned or not, including
\* accesses whose bytes wrap past 2^32-1) and every width n in {1, 2, 4},
\* mem_read(A, n) immediately after mem_write(A, n, v) returns v mod 2^(8n).
C23_WriteThenReadReturnsValue ==
    (call.fn = "mem_rw" /\ "read" \in DOMAIN result) =>
        result["read"] = LowBytes(call.val, call.size)

\* a word written at 0xFFFFFFFE over 0xAA bytes: two bytes land at
\* addresses 0 and 1, and the word is read back whole
C23_Witness ==
    /\ call.fn = "mem_rw" /\ "read" \in DOMAIN result
    /\ call.addr = <<65535, 65534>> /\ call.size = 4
    /\ call.base # EmptyMem /\ call.val = <<4660, 22136>>
    /\ result["read"] = <<4660, 22136>>
    /\ result["mem"][ZERO] = 52 /\ result["mem"][Z(1)] = 18

\* byte d of a 32-bit value, d in 0..3
ByteOf(v, d) ==
    IF d < 2 THEN (v[2] \div (256^d)) % 256 ELSE (v[1] \div (256^(d - 2))) % 256

LoadProgDone == call.fn = "mem_prog" /\ "ld" \in DOMAIN result

\* the byte the program leaves at x1 + d: from the second store where it
\* covers d, else from the first store where it covers d, else never written
ExpectedByte(d) ==
    IF call.st2 # "none" /\ call.k <= d /\ d < call.k + StoreWidth(call.st2)
    THEN ByteOf(call.x3, d - call.k)
    ELSE IF d < StoreWidth(call.st) THEN ByteOf(call.x2, d)
    ELSE 0

\* the bytes the load covers, assembled little-endian and zero-extended
LoadedRaw ==
    LET B(i) == IF i < LoadWidth(call.ld) THEN ExpectedByte(call.j + i) ELSE 0
    IN  <<B(2) + 256 * B(3), B(0) + 256 * B(1)>>

\* C24: memory is zero-initialised and little-endian at byte granularity: a
\* byte never written reads as 0; after a store at A, LBU at A+i returns
\* byte i of the stored value, LHU and LW the bytes they cover with the
\* lowest address least significant; a later narrower store overwrites only
\* the bytes it covers.
C24_LittleEndianByteMemory ==
    (LoadProgDone /\ call.ld \in {"LBU", "LHU", "LW"}) =>
        /\ result["ld"].err = ""
        /\ result["ld"].rd_data = LoadedRaw
        /\ result["entry"].rd_data = LoadedRaw

\* SW of 0x12345678, then SB of 0xAB at offset 1, then LW: 0x1234AB78
C24_Witness ==
    /\ LoadProgDone
    /\ call.st = "SW" /\ call.x2 = <<4660, 22136>>
    /\ call.st2 = "SB" /\ call.k = 1 /\ call.x3 = Z(171)
    /\ call.ld = "LW" /\ call.j = 0
    /\ result["ld"].rd_data = <<4660, 43896>>

\* the value a load commits: LB and LH extend the sign bit of what they
\* read, LBU, LHU and LW commit it as read
ExtendedLoad ==
    LET raw == LoadedRaw
    IN  CASE call.ld = "LB" ->
               IF raw[2] >= 128 THEN <<65535, 65280 + raw[2]>> ELSE raw
          [] call.ld = "LH" ->
               IF raw[2] >= 32768 THEN <<65535, raw[2]>> ELSE raw
          [] OTHER -> raw

\* C25: after a byte b is stored at A, LB from A commits b sign-extended
\* from bit 7 to 32 bits and LBU commits b zero-extended (0x80 gives
\* 0xFFFFFF80 and 0x00000080); LH sign-extends from bit 15 and LHU
\* zero-extends a stored halfword, and LW returns the full 32 bits.
C25_LoadsExtendPerOpcode ==
    LoadProgDone =>
        /\ result["ld"].err = ""
        /\ result["ld"].rd_data = ExtendedLoad
        /\ result["entry"].rd_data = ExtendedLoad

\* SB of 0x80 then LB at the same address commits 0xFFFFFF80
C25_Witness ==
    /\ LoadProgDone
    /\ call.st = "SB" /\ call.x2 = Z(128) /\ call.st2 = "none"
    /\ call.ld = "LB" /\ call.j = 0
    /\ result["ld"].rd_data = <<65535, 65408>>

-----------------------------------------------------------------------------
(***************************************************************************)
(* Wraparound of the arithmetic instructions (specification SpecExec).     *)
(***************************************************************************)
\* the 20-bit field of a U-type immediate shifted into bits 31..12
Upper20(imm) ==
    LET f == (imm[1] % 16) * 65536 + imm[2]
    IN  <<f \div 16, (f % 16) * 4096>>

\* C26: every register holds a value in 0..2^32-1 after every step, and
\* the results of ADD, SUB, ADDI and AUIPC equal the mathematical result
\* reduced modulo 2^32 (0xFFFFFFFF + 1 = 0, 0x7FFFFFFF + 1 = 0x80000000,
\* 0x80000000 - 1 = 0x7FFFFFFF).
C26_ArithmeticWraps ==
    Executed =>
        LET v == result["out"].rd_data
        IN  /\ \A i \in 0..31 : Is32(result["regs"][i])
            /\ call.op = "ADD"   => v = Add32(call.a, call.b)
            /\ call.op = "SUB"   => v = Sub32(call.a, call.b)
            /\ call.op = "ADDI"  => v = Add32(call.a, SignExt12(call.imm))
            /\ call.op = "AUIPC" => v = Add32(call.pc, Upper20(call.imm))

\* 0xFFFFFFFF + 1 commits 0 to x3
C26_Witness ==
    /\ Executed /\ call.op = "ADD" /\ call.rd = 3
    /\ call.a = <<65535, 65535>> /\ call.b = Z(1)
    /\ result["out"].rd_data = ZERO
    /\ result["regs"][3] = ZERO

-----------------------------------------------------------------------------
(***************************************************************************)
(* The assembler (sw/rv32i_tests_gen.py lines 360-648).  An Asm object is  *)
(* a record; a method is an operator from the object before the call to    *)
(* the object after it.  Immediates are plain integers as the callers pass *)
(* them, and are stored in the metadata as pairs.  A ValueError raised by  *)
(* label or finalize is kept in the field err.                             *)
(***************************************************************************)
ToInt(z) == z[1] * Limb + z[2]

\* lines 361-366
AsmNew == [words |-> <<>>, asm |-> <<>>, meta |-> <<>>, labels |-> <<>>,
           fixups |-> <<>>, err |-> ""]

\* lines 368-369
Asm_pc(a) == 4 * Len(a.words)

\* lines 371-374
emit(a, w, text, m) ==
    [a EXCEPT !.words = Append(@, u32(w)), !.asm = Append(@, text),
              !.meta = Append(@, m)]

lui(a, rd, imm20) ==
    emit(a, LUI(rd, imm20), <<"lui", rd, imm20>>, Meta("LUI", rd, 0, 0, Z(imm20), None))
auipc(a, rd, imm20) ==
    emit(a, AUIPC(rd, imm20), <<"auipc", rd, imm20>>,
         Meta("AUIPC", rd, 0, 0, Z(imm20), None))
addi(a, rd, rs1, imm) ==
    emit(a, ADDI(rd, rs1, imm), <<"addi", rd, rs1, imm>>,
         Meta("ADDI", rd, rs1, 0, Z(imm), None))
andi(a, rd, rs1, imm) ==
    emit(a, ANDI(rd, rs1, imm), <<"andi", rd, rs1, imm>>,
         Meta("ANDI", rd, rs1, 0, Z(imm), None))
ori(a, rd, rs1, imm) ==
    emit(a, ORI(rd, rs1, imm), <<"ori", rd, rs1, imm>>,
         Meta("ORI", rd, rs1, 0, Z(imm), None))
xori(a, rd, rs1, imm) ==
    emit(a, XORI(rd, rs1, imm), <<"xori", rd, rs1, imm>>,
         Meta("XORI", rd, rs1, 0, Z(imm), None))
slli(a, rd, rs1, sh) ==
    emit(a, SLLI(rd, rs1, sh), <<"slli", rd, rs1, sh>>,
         Meta("SLLI", rd, rs1, 0, Z(sh), None))
srli(a, rd, rs1, sh) ==
    emit(a, SRLI(rd, rs1, sh), <<"srli", rd, rs1, sh>>,
         Meta("SRLI", rd, rs1, 0, Z(sh), None))
add(a, rd, rs1, rs2) ==
    emit(a, ADD(rd, rs1, rs2), <<"add", rd, rs1, rs2>>,
         Meta("ADD", rd, rs1, rs2, ZERO, None))
_and(a, rd, rs1, rs2) ==
    emit(a, AND(rd, rs1, rs2), <<"and", rd, rs1, rs2>>,
         Meta("AND", rd, rs1, rs2, ZERO, None))
_or(a, rd, rs1, rs2) ==
    emit(a, OR(rd, rs1, rs2), <<"or", rd, rs1, rs2>>,
         Meta("OR", rd, rs1, rs2, ZERO, None))
_xor(a, rd, rs1, rs2) ==
    emit(a, XOR(rd, rs1, rs2), <<"xor", rd, rs1, rs2>>,
         Meta("XOR", rd, rs1, rs2, ZERO, None))
sltu(a, rd, rs1, rs2) ==
    emit(a, SLTU(rd, rs1, rs2), <<"sltu", rd, rs1, rs2>>,
         Meta("SLTU", rd, rs1, rs2, ZERO, None))
nop(a) == emit(a, NOP, <<"nop">>, Meta("NOP", 0, 0, 0, ZERO, None))

\* a comment line: a NOP word whose text starts with '#'
comment(a, text) == emit(a, NOP, <<"#", text>>, Meta("NOP", 0, 0, 0, ZERO, None))

\* A method reads the assembler object as the statement before left it:
\* the object is evaluated once and the method body applied to that value.
On(obj, Method(_)) == CHOOSE after \in {Method(a) : a \in {obj}} : TRUE

\* lines 505-509
label(obj, name) ==
    On(obj, LAMBDA a :
        IF name \in DOMAIN a.labels THEN [a EXCEPT !.err = "Duplicate label"]
        ELSE [a EXCEPT !.labels = (name :> Asm_pc(a)) @@ @])

\* lines 511-516 and 529-530
bne(obj, rs1, rs2, name) ==
    On(obj, LAMBDA a :
        emit([a EXCEPT !.fixups = Append(@, <<Len(a.words), "B", name>>)],
             BNE(rs1, rs2, 0), <<"bne", rs1, rs2, name>>,
             Meta("BNE", 0, rs1, rs2, ZERO, None)))

\* lines 518-523 and 545-546
jal(obj, rd, name) ==
    On(obj, LAMBDA a :
        emit([a EXCEPT !.fixups = Append(@, <<Len(a.words), "J", name>>)],
             JAL(rd, 0), <<"jal", rd, name>>, Meta("JAL", rd, 0, 0, ZERO, None)))

\* lines 548-550
jalr(a, rd, rs1, imm) ==
    emit(a, JALR(rd, rs1, imm), <<"jalr", rd, rs1, imm>>,
         Meta("JALR", rd, rs1, 0, Z(imm), None))

\* lines 552-577: the fixups from the i-th on (1-based)
RECURSIVE finalize_from(_, _)
finalize_from(obj, i) ==
    On(obj, LAMBDA a :
        IF i > Len(a.fixups) THEN a
        ELSE LET idx  == a.fixups[i][1]
                 kind == a.fixups[i][2]
                 name == a.fixups[i][3]
             IN  IF name \notin DOMAIN a.labels
                 THEN [a EXCEPT !.err = "Undefined label"]
                 ELSE LET tgt == a.labels[name]
                          off == tgt - idx * 4
                      IN  IF off % 2 = 1
                          THEN [a EXCEPT !.err = "target not aligned"]
                          ELSE finalize_from(
                                 [a EXCEPT
                                    !.words[idx + 1] =
                                        IF kind = "B" THEN patch_B(@, Z(off))
                                        ELSE patch_J(@, Z(off)),
                                    !.meta[idx + 1].target_pc = Z(tgt)],
                                 i + 1))

finalize(a) == finalize_from(a, 1)

\* lines 583-601: imm32 is a pair, has_comment tells whether a comment
\* string was passed
li(a, rd, imm32, has_comment) ==
    LET v      == u32(imm32)
        upper0 == ToInt(MaskZ(ShrZ(v, 12), 20))
        lower  == ToInt(MaskZ(v, 12))
        upper  == IF BitAndI(lower, 2048) # 0 THEN (upper0 + 1) % (2^20) ELSE upper0
        a1     == IF has_comment THEN comment(a, "li") ELSE a
    IN  IF upper # 0
        THEN LET a2 == lui(a1, rd, upper)
             IN  IF lower # 0 THEN addi(a2, rd, rd, ToInt(sext(Z(lower), 12)))
                 ELSE a2
        ELSE addi(a1, rd, 0, ToInt(sext(Z(lower), 12)))

\* lines 603-627
check_reg(a, reg, expected, fail_bit) ==
    LET a1 == li(a, 28, u32(expected), TRUE)
        a2 == _xor(a1, 29, reg, 28)
        a3 == sltu(a2, 29, 0, 29)
        a4 == IF fail_bit > 0 THEN slli(a3, 29, 29, fail_bit) ELSE a3
        a5 == _or(a4, 31, 31, 29)
    IN  comment(a5, "check")

\* lines 629-632
init_test(a) == comment(addi(a, 31, 0, 0), "TEST START")

\* lines 634-648: 0xDEADBEEF when a pass is expected, else 0x0BADC0DE
finalize_test(a, expected_x31) ==
    LET a1 == comment(a, "TEST END")
        a2 == li(a1, 28, expected_x31, TRUE)
        a3 == _xor(a2, 29, 31, 28)
        a4 == sltu(a3, 30, 0, 29)
    IN  li(a4, 30, IF expected_x31 = ZERO THEN <<57005, 48879>> ELSE <<2989, 49374>>,
           TRUE)

-----------------------------------------------------------------------------
(***************************************************************************)
(* Test programs and the run main makes of them (lines 2534-2543): the     *)
(* program is assembled, finalized, padded with NOPs and simulated from    *)
(* the assembler's own metadata.                                           *)
(***************************************************************************)
PadWords  == 16      \* main's default --pad
ProgSteps == 150     \* step budget of the runs (200000 in the source)

\* A program body is the list of the method calls it makes on the assembler
\* object, in order; Assemble makes them one after the other.

\* ADDI x1,x0,5; ADDI x2,x0,7; ADD x3,x1,x2
ScenarioA == add(addi(addi(AsmNew, 1, 0, 5), 2, 0, 7), 3, 1, 2)

\* lines 1070-1088
prog_branch_loop ==
    << <<"init_test">>,
       <<"addi", 10, 0, 0>>,
       <<"addi", 11, 0, 1>>,
       <<"addi", 12, 0, 6>>,
       <<"label", "LOOP">>,
       <<"add", 10, 10, 11>>,
       <<"addi", 11, 11, 1>>,
       <<"bne", 11, 12, "LOOP">>,
       <<"check_reg", 10, Z(15), 0>>,
       <<"check_reg", 11, Z(6), 1>>,
       <<"finalize_test", ZERO>> >>

\* lines 1090-1117
prog_jal_basic ==
    << <<"init_test">>,
       <<"addi", 10, 0, 0>>,
       <<"auipc", 1, 0>>,
       <<"jal", 5, "TARGET">>,
       <<"addi", 10, 10, 1>>,
       <<"label", "TARGET">>,
       <<"check_reg", 10, ZERO, 0>>,
       <<"addi", 11, 0, 99>>,
       <<"jalr", 0, 5, 0>>,
       <<"addi", 11, 11, 1>>,
       <<"check_reg", 11, Z(100), 1>>,
       <<"finalize_test", ZERO>> >>

\* lines 1734-1776
prog_bitwise_patterns ==
    << <<"init_test">>,
       <<"li", 1, <<43690, 43690>>, FALSE>>,
       <<"li", 2, <<21845, 21845>>, FALSE>>,
       <<"_and", 3, 1, 2>>,
       <<"xori", 4, 3, 4095>>,
       <<"check_reg", 3, ZERO, 0>>,
       <<"_xor", 5, 1, 1>>,
       <<"check_reg", 5, ZERO, 1>>,
       <<"li", 6, <<4660, 22136>>, FALSE>>,
       <<"li", 7, <<43981, 61184>>, FALSE>>,
       <<"_xor", 8, 6, 7>>,
       <<"_xor", 9, 8, 7>>,
       <<"check_reg", 9, <<4660, 22136>>, 2>>,
       <<"li", 10, <<65535, 65535>>, FALSE>>,
       <<"andi", 11, 10, 255>>,
       <<"check_reg", 11, Z(255), 3>>,
       <<"li", 12, <<4660, 22136>>, FALSE>>,
       <<"andi", 13, 12, 3840>>,
       <<"check_reg", 13, Z(1536), 4>>,
       <<"li", 14, ZERO, FALSE>>,
       <<"ori", 15, 14, 240>>,
       <<"check_reg", 15, Z(240), 5>>,
       <<"andi", 16, 15, 4080>>,
       <<"check_reg", 16, Z(240), 6>>,
       <<"xori", 17, 16, 255>>,
       <<"check_reg", 17, Z(15), 7>>,
       <<"finalize_test", ZERO>> >>

\* lines 2343-2365
prog_jalr_corner_cases ==
    << <<"init_test">>,
       <<"jal", 1, "TARGET1">>,
       <<"label", "RETURN1">>,
       <<"addi", 10, 0, 1>>,
       <<"jal", 0, "END">>,
       <<"label", "TARGET1">>,
       <<"jalr", 1, 1, 0>>,
       <<"label", "TARGET2">>,
       <<"auipc", 2, 0>>,
       <<"addi", 2, 2, 12>>,
       <<"jalr", 3, 2, 0>>,
       <<"addi", 10, 0, 999>>,
       <<"label", "END">>,
       <<"check_reg", 10, Z(1), 0>>,
       <<"finalize_test", ZERO>> >>

\* one statement of a program body: s[1] names the method
Apply(a, s) ==
    CASE s[1] = "init_test" -> init_test(a)
      [] s[1] = "finalize_test" -> finalize_test(a, s[2])
      [] s[1] = "check_reg" -> check_reg(a, s[2], s[3], s[4])
      [] s[1] = "li" -> li(a, s[2], s[3], s[4])
      [] s[1] = "label" -> label(a, s[2])
      [] s[1] = "bne" -> bne(a, s[2], s[3], s[4])
      [] s[1] = "jal" -> jal(a, s[2], s[3])
      [] s[1] = "jalr" -> jalr(a, s[2], s[3], s[4])
      [] s[1] = "auipc" -> auipc(a, s[2], s[3])
      [] s[1] = "lui" -> lui(a, s[2], s[3])
      [] s[1] = "slli" -> slli(a, s[2], s[3], s[4])
      [] s[1] = "srli" -> srli(a, s[2], s[3], s[4])
      [] s[1] = "addi" -> addi(a, s[2], s[3], s[4])
      [] s[1] = "andi" -> andi(a, s[2], s[3], s[4])
      [] s[1] = "ori" -> ori(a, s[2], s[3], s[4])
      [] s[1] = "xori" -> xori(a, s[2], s[3], s[4])
      [] s[1] = "add" -> add(a, s[2], s[3], s[4])
      [] s[1] = "_and" -> _and(a, s[2], s[3], s[4])
      [] s[1] = "_xor" -> _xor(a, s[2], s[3], s[4])

\* lines 2534-2535: prog(a) on a new assembler, from the i-th statement on
RECURSIVE Assemble(_, _, _)
Assemble(obj, prog, i) ==
    CHOOSE after \in {IF i > Len(prog) THEN a
                      ELSE Assemble(Apply(a, prog[i]), prog, i + 1) : a \in {obj}} : TRUE

\* lines 2538-2539
RECURSIVE pad(_, _)
pad(a, n) == IF n <= 0 THEN a ELSE pad(nop(a), n - 1)

\* lines 2534-2539: what main hands to the simulator
MainImage(a) == pad(finalize(a), PadWords)

BranchLoopImage == MainImage(Assemble(AsmNew, prog_branch_loop, 1))
JalBasicImage == MainImage(Assemble(AsmNew, prog_jal_basic, 1))
BitwisePatternsImage == MainImage(Assemble(AsmNew, prog_bitwise_patterns, 1))
JalrCornerImage == MainImage(Assemble(AsmNew, prog_jalr_corner_cases, 1))

Programs ==
    {ScenarioA, BranchLoopImage, JalBasicImage, BitwisePatternsImage,
     JalrCornerImage}

\* lines 2543 and 681-688: the state when the loop is first tested
ProgInit ==
    /\ \E p \in Programs :
          /\ p.err = ""
          /\ words = p.words /\ meta = p.meta /\ asm = p.asm
    /\ max_steps = ProgSteps
    /\ regs = [i \in 0..31 |-> ZERO]
    /\ mem = EmptyMem
    /\ pc = ZERO
    /\ cycle = 0
    /\ commit_trace = <<>>
    /\ sim_state = "running"
    /\ sim_error = ""
    /\ warned = FALSE
    /\ ret = None

InitProg == ProgInit /\ DiffIdle /\ RedirIdle /\ CallIdle /\ LogIdle
NextProg == Step \/ Finish
SpecProg == InitProg /\ [][NextProg]_vars

(***************************************************************************)
(* Claims about the runs of the test programs.                             *)
(***************************************************************************)
Running(p) == words = p.words /\ meta = p.meta
Returned(p) == Running(p) /\ sim_state = "returned"

\* C27: simulating ADDI x1,x0,5; ADDI x2,x0,7; ADD x3,x1,x2 yields exactly
\* three commit entries, at pcs 0, 4, 8 with (rd, data) = (1,5), (2,7),
\* (3,12), and final registers x1=5, x2=7, x3=12 with every other
\* register 0.
C27_ScenarioA ==
    Returned(ScenarioA) =>
        /\ [i \in 1..Len(ret[1]) |-> <<ret[1][i].pc, ret[1][i].rd, ret[1][i].rd_data>>]
             = << <<Z(0), 1, Z(5)>>, <<Z(4), 2, Z(7)>>, <<Z(8), 3, Z(12)>> >>
        /\ ret[2] = [i \in 0..31 |-> CASE i = 1 -> Z(5) [] i = 2 -> Z(7)
                                       [] i = 3 -> Z(12) [] OTHER -> ZERO]

C27_Witness == Returned(ScenarioA) /\ Len(ret[1]) = 3 /\ ret[2][3] = Z(12)

\* C28: the jal_basic self-check program, finalized and NOP-padded as main
\* does, run from pc 0, terminates by running off the end of the image
\* rather than by exhausting the step budget, and ends with x31 = 0 (PASS),
\* x10 = 0 and x11 = 100.
C28_JalBasicRunsOffEndAndPasses ==
    Returned(JalBasicImage) =>
        /\ ~warned
        /\ ~InImage(words, pc)
        /\ ret[2][31] = ZERO /\ ret[2][10] = ZERO /\ ret[2][11] = Z(100)

\* what the run does instead: JALR x0, 0(x5) returns to the word after the
\* JAL, the poison ADDI, and falls into TARGET again with x5 unchanged; the
\* pc never passes the JALR, so only the step budget ends the run, with the
\* poison check failed
JalrIndex == CHOOSE i \in 1..Len(JalBasicImage.meta) : JalBasicImage.meta[i].op = "JALR"
C28_NeverPassesJalr ==
    Running(JalBasicImage) =>
        /\ InImage(words, pc) /\ IdxOf(pc) + 1 <= JalrIndex
        /\ sim_state = "returned" => (warned /\ ret[2][31] = Z(1))

C28_LoopsUntilBudget ==
    /\ Returned(JalBasicImage) /\ warned /\ Len(ret[1]) = max_steps
    /\ Cardinality({i \in 1..Len(ret[1]) : IdxOf(ret[1][i].pc) + 1 = JalrIndex}) > 1

\* C29: the bitwise_patterns self-check program ends with x31 = 0, every
\* check_reg expectation in it holds, including ANDI x13,x12,0xF00 on
\* x12 = 0x12345678 committing 0x600 and ANDI x16,x15,0xFF0 on x15 = 0x0F0
\* committing 0x0F0.
AndiEntry(rd) ==
    LET tr == ret[1]
        i  == CHOOSE k \in 1..Len(tr) : meta[IdxOf(tr[k].pc) + 1].op = "ANDI"
                                         /\ tr[k].rd = rd
    IN  tr[i]

C29_BitwisePatternsPass ==
    Returned(BitwisePatternsImage) =>
        /\ ret[2][31] = ZERO
        /\ AndiEntry(13).rd_data = Z(1536)
        /\ AndiEntry(16).rd_data = Z(240)

\* what the run does instead: the immediate 0xF00 is sign-extended to
\* 0xFFFFFF00, ANDI commits 0x12345600 and check 4 sets bit 4 of x31
C29_OnlyCheck4Fails ==
    Returned(BitwisePatternsImage) =>
        /\ ~warned
        /\ ret[2][31] = Z(16)
        /\ AndiEntry(13).rd_data = <<4660, 22016>>
        /\ AndiEntry(16).rd_data = Z(240)

C29_RunFinished == Returned(BitwisePatternsImage) /\ Len(ret[1]) = Len(words)

-----------------------------------------------------------------------------
(***************************************************************************)
(* The commit stream parser (test/trace_diff.py lines 43-97).  A line of   *)
(* the file is blank, text json.loads rejects, or a JSON object; an object *)
(* is a record over the keys the parser reads, Absent for a missing key.   *)
(* A JSON number is <<"int", n>>, a JSON string <<"str", s>>.              *)
(***************************************************************************)
MaxJsonLines == 2

JStr(s) == <<"str", s>>
JsonBlank == <<"blank">>
JsonGarbage == <<"garbage">>
JsonObj(o) == <<"obj", o>>

\* int(s) of the strings the lines carry: base 10, ValueError for the rest
DecimalOf == ("0" :> 0 @@ "1" :> 1 @@ "3" :> 3)
\* int(s, 16) of the strings the lines carry, with or without the 0x prefix
HexOf == ("0x1" :> Z(1) @@ "0x3" :> Z(3) @@ "0x8" :> Z(8) @@ "10" :> Z(16))

\* int(obj.get(key, default)): <<n>>, or <<>> when int() raises ValueError
py_int(v, default) ==
    IF v = Absent THEN Some(default)
    ELSE IF v[1] = "int" THEN Some(v[2])
    ELSE IF v[2] \in DOMAIN DecimalOf THEN Some(DecimalOf[v[2]])
    ELSE NoneI

\* lines 43-55 applied to obj.get(key, 0): the strings of the model are all
\* readable as hexadecimal, so the fallback to base 10 is never taken
hex_to_int(v) ==
    IF v = Absent THEN ZERO
    ELSE IF v[1] = "int" THEN v[2]
    ELSE HexOf[v[2]]

JsonObjects ==
    [type : {Absent, JStr("commit"), JStr("fetch")},
     valid : {Absent, Num(0), Num(1), Num(2), JStr("0"), JStr("0x1")},
     uses_rd : {Num(1)}, rd_arch : {Num(3)},
     pc : {Num(Z(4))}, data : {Num(Z(5))}]
    \cup
    [type : {Absent}, valid : {Num(1)},
     uses_rd : {Absent, Num(0), Num(1), Num(2), JStr("0x1")},
     rd_arch : {Absent, Num(3), JStr("3"), JStr("0x3")},
     pc : {Num(Z(4))}, data : {Num(Z(5))}]
    \cup
    [type : {Absent}, valid : {Absent}, uses_rd : {Num(1)}, rd_arch : {Num(3)},
     pc : {Absent, Num(Z(4)), JStr("0x8"), JStr("10")},
     data : {Absent, Num(Z(5)), JStr("0x3")}]

JsonLines == {JsonBlank, JsonGarbage} \cup {JsonObj(o) : o \in JsonObjects}

JsonInit ==
    /\ call \in [fn : {"parse_commit_jsonl"}, lines : SeqsUpTo(JsonLines, MaxJsonLines)]
    /\ result = [lineno |-> 0, out |-> <<>>, bad |-> 0, state |-> "reading"]

JsonReading ==
    /\ call.fn = "parse_commit_jsonl"
    /\ result.state = "reading" /\ result.lineno < Len(call.lines)
JsonLine == call.lines[result.lineno + 1]
JsonNext(res) == [res EXCEPT !.lineno = @ + 1]
JsonUnchanged == UNCHANGED <<call, simVars, diffVars, redirVars, logVars>>

\* the object passes the filter of lines 72-73
TypeIsCommit(o) == o.type = Absent \/ o.type = JStr("commit")

\* the int() calls of lines 74, 80, 81 in the order they are made; the
\* ones after line 74 are reached only when the record is not dropped
JsonRaises(o) ==
    \/ py_int(o.valid, 1) = NoneI
    \/ /\ py_int(o.valid, 1) # Some(0)
       /\ (py_int(o.uses_rd, 0) = NoneI \/ py_int(o.rd_arch, 0) = NoneI)

\* lines 63-65
SkipBlankLine ==
    /\ JsonReading /\ JsonLine = JsonBlank
    /\ result' = JsonNext(result)
    /\ JsonUnchanged

\* lines 66-70
CountBadLine ==
    /\ JsonReading /\ JsonLine = JsonGarbage
    /\ result' = JsonNext([result EXCEPT !.bad = @ + 1])
    /\ JsonUnchanged

\* lines 72-73
DropOtherType ==
    /\ JsonReading /\ JsonLine[1] = "obj" /\ ~TypeIsCommit(JsonLine[2])
    /\ result' = JsonNext(result)
    /\ JsonUnchanged

\* lines 74, 80, 81: int() raises ValueError, which nothing catches
RaiseOnFlag ==
    /\ JsonReading /\ JsonLine[1] = "obj" /\ TypeIsCommit(JsonLine[2])
    /\ JsonRaises(JsonLine[2])
    /\ result' = [result EXCEPT !.state = "raised"]
    /\ JsonUnchanged

\* lines 74-75
DropInvalid ==
    /\ JsonReading /\ JsonLine[1] = "obj" /\ TypeIsCommit(JsonLine[2])
    /\ py_int(JsonLine[2].valid, 1) = Some(0)
    /\ result' = JsonNext(result)
    /\ JsonUnchanged

\* lines 77-96
KeepRecord ==
    /\ JsonReading /\ JsonLine[1] = "obj" /\ TypeIsCommit(JsonLine[2])
    /\ ~JsonRaises(JsonLine[2])
    /\ py_int(JsonLine[2].valid, 1) # Some(0)
    /\ LET o       == JsonLine[2]
           uses_rd == py_int(o.uses_rd, 0)[1]
           rd_arch == py_int(o.rd_arch, 0)[1]
       IN  result' = JsonNext([result EXCEPT !.out = Append(@,
                        [idx |-> Len(result.out), cycle |-> NoneI,
                         pc |-> hex_to_int(o.pc),
                         rd |-> IF uses_rd # 0 THEN rd_arch ELSE 0,
                         data |-> hex_to_int(o.data),
                         is_branch |-> 0, mispredict |-> 0,
                         lineno |-> result.lineno + 1])])
    /\ JsonUnchanged

\* line 97
ReturnRecords ==
    /\ call.fn = "parse_commit_jsonl"
    /\ result.state = "reading" /\ result.lineno = Len(call.lines)
    /\ result' = [result EXCEPT !.state = "returned"]
    /\ JsonUnchanged

InitJsonl == JsonInit /\ SimIdle /\ DiffIdle /\ RedirIdle /\ LogIdle
NextJsonl ==
    \/ SkipBlankLine \/ CountBadLine \/ DropOtherType \/ RaiseOnFlag
    \/ DropInvalid \/ KeepRecord \/ ReturnRecords
SpecJsonl == InitJsonl /\ [][NextJsonl]_vars

(***************************************************************************)
(* What the records of a stream are, read off the lines themselves: a flag *)
(* is a number, written as a JSON number, a decimal string or a            *)
(* hexadecimal string.                                                     *)
(***************************************************************************)
FlagValue(v, default) ==
    IF v = Absent THEN default
    ELSE IF v[1] = "int" THEN v[2]
    ELSE IF v[2] \in DOMAIN DecimalOf THEN DecimalOf[v[2]]
    ELSE ToInt(HexOf[v[2]])

ShouldKeep(line) ==
    /\ line[1] = "obj"
    /\ TypeIsCommit(line[2])
    /\ FlagValue(line[2].valid, 1) # 0

ExpectedRd(o) ==
    IF FlagValue(o.uses_rd, 0) # 0 THEN FlagValue(o.rd_arch, 0) ELSE 0

JsonFinished == call.fn = "parse_commit_jsonl" /\ result.state # "reading"

KeptAsClaimed ==
    /\ Len(result.out) =
          Cardinality({i \in 1..Len(call.lines) : ShouldKeep(call.lines[i])})
    /\ \A k \in 1..Len(result.out) :
          /\ result.out[k].idx = k - 1
          /\ ShouldKeep(call.lines[result.out[k].lineno])
          /\ result.out[k].rd = ExpectedRd(call.lines[result.out[k].lineno][2])
          /\ \A j \in 1..(k - 1) : result.out[j].lineno < result.out[k].lineno
    /\ result.bad =
          Cardinality({i \in 1..Len(call.lines) : call.lines[i] = JsonGarbage})

HexFlag(v) == v # Absent /\ v[1] = "str" /\ v[2] \notin DOMAIN DecimalOf
HasHexFlag(line) ==
    /\ line[1] = "obj"
    /\ (HexFlag(line[2].valid) \/ HexFlag(line[2].uses_rd) \/ HexFlag(line[2].rd_arch))

\* C30: parse_commit_jsonl keeps, in input order, exactly the records whose
\* type is absent or "commit" and whose valid flag is non-zero; a kept
\* record's rd is rd_arch when uses_rd is non-zero and 0 otherwise, its idx
\* is its position in the output, and a line that fails to parse is only
\* counted.  Stated over every stream of the input format, where a numeric
\* field may be a hexadecimal string: the parser then returns no records.
C30_KeepsValidCommits ==
    JsonFinished => result.state = "returned" /\ KeptAsClaimed

\* what does hold: a stream is read as claimed unless the parser met a flag
\* written as a hexadecimal string in a record it had not dropped
C30_HoldsUnlessHexFlag ==
    JsonFinished =>
        IF result.state = "returned" THEN KeptAsClaimed
        ELSE /\ result.lineno < Len(call.lines)
             /\ HasHexFlag(call.lines[result.lineno + 1])
             /\ TypeIsCommit(call.lines[result.lineno + 1][2])

\* a stream of two kept records, the first with uses_rd set and the second
\* without, has been returned
C30_ReturnedTwoRecords ==
    /\ JsonFinished /\ result.state = "returned"
    /\ Len(result.out) = 2 /\ result.out[1].rd = 3 /\ result.out[2].rd = 0

\* a record with "valid": "0x1" ended the parse
C30_RaisedOnHexValid ==
    /\ JsonFinished /\ result.state = "raised"
    /\ call.lines[result.lineno + 1][2].valid = JStr("0x1")

-----------------------------------------------------------------------------
(***************************************************************************)
(* The golden trace file: write_commit_trace (sw/rv32i_tests_gen.py lines  *)
(* 870-887) and parse_gold_trace (test/trace_diff.py lines 11-41).  A      *)
(* file is the sequence of the characters written to it, a string the      *)
(* sequence of its characters.                                             *)
(***************************************************************************)
MaxEntries == 2

HexChars == <<"0", "1", "2", "3", "4", "5", "6", "7", "8", "9",
              "a", "b", "c", "d", "e", "f">>
DecDigit == {HexChars[i] : i \in 1..10}
HexDigit == {HexChars[i] : i \in 1..16} \cup {"A", "B", "C", "D", "E", "F"}
Space    == {" ", "\t"}
Newline  == "\n"

\* the digits of a natural number in a base up to 16, most significant first
RECURSIVE DigitsOf(_, _)
DigitsOf(n, base) ==
    IF n < base THEN <<HexChars[n + 1]>>
    ELSE DigitsOf(n \div base, base) \o <<HexChars[(n % base) + 1]>>

PadLeft(s, width, c) ==
    IF Len(s) >= width THEN s ELSE [i \in 1..(width - Len(s)) |-> c] \o s

\* f"{n:6d}" and f"{n:02d}" of a natural number
FormatDec(n, width, c) == PadLeft(DigitsOf(n, 10), width, c)

\* f"{z:x}": no padding to eight characters
FormatHex08_NoPad(z) ==
    IF z[1] = 0 THEN DigitsOf(z[2], 16)
    ELSE DigitsOf(z[1], 16) \o PadLeft(DigitsOf(z[2], 16), 4, "0")

\* f"{z:08x}": the sign, then the hexadecimal digits padded with zeros to
\* eight characters in all
FormatHex08(z) ==
    LET Mag(v) == IF v[1] = 0 THEN DigitsOf(v[2], 16)
                  ELSE DigitsOf(v[1], 16) \o PadLeft(DigitsOf(v[2], 16), 4, "0")
    IN  IF z[1] < 0 THEN <<"-">> \o PadLeft(Mag(SubZ(ZERO, z)), 7, "0")
        ELSE PadLeft(Mag(z), 8, "0")

\* lines 876-878 of the writer
TraceHeader ==
    <<"#", " ", "G", "o", "l", "d", "e", "n", " ", "C", "o", "m", "m", "i",
         "t", " ", "T", "r", "a", "c", "e", Newline>>
    \o <<"#", " ", "c", "y", "c", "l", "e", " ", " ", "p", "c", " ", " ", " ",
         " ", " ", " ", " ", " ", "i", "n", "s", "t", " ", " ", " ", " ", " ",
         " ", " ", "r", "d", " ", " ", "d", "a", "t", "a", " ", " ", " ", " ",
         " ", " ", " ", "a", "s", "m", Newline>>
    \o <<"#", " ", "-", "-", "-", "-", "-", "-", "-", "-", "-", "-", "-", "-",
         "-", "-", "-", "-", "-", "-", "-", "-", "-", "-", "-", "-", "-", "-",
         "-", "-", "-", "-", "-", "-", "-", "-", "-", "-", "-", "-", "-", "-",
         "-", "-", "-", "-", "-", "-", "-", "-", "-", "-", "-", "-", "-", "-",
         "-", "-", "-", "-", "-", "-", Newline>>

\* lines 880-887: the row of one entry
FormatEntry(e) ==
    FormatDec(e.cycle, 6, " ") \o <<" ", " ">>
    \o FormatHex08(e.pc) \o <<" ", " ">>
    \o FormatHex08(e.inst) \o <<" ", " ">>
    \o <<"x">> \o FormatDec(e.rd, 2, "0") \o <<" ", " ">>
    \o FormatHex08(e.rd_data) \o <<" ", " ">>
    \o e.asm \o <<Newline>>

RECURSIVE FormatEntries(_, _)
FormatEntries(tr, i) ==
    IF i > Len(tr) THEN <<>> ELSE FormatEntry(tr[i]) \o FormatEntries(tr, i + 1)

\* lines 875-887
write_commit_trace(tr) == TraceHeader \o FormatEntries(tr, 1)

Slice(s, i, j) == [k \in 1..(j - i) |-> s[i + k - 1]]

\* for line in f: the lines of the file, newline removed (line 19); a last
\* line without a newline is a line too
FileLines(f) ==
    LET nl   == {i \in 1..Len(f) : f[i] = Newline}
        ends == IF f = <<>> \/ f[Len(f)] = Newline THEN nl ELSE nl \cup {Len(f) + 1}
        End(k) == CHOOSE p \in ends : Cardinality({q \in ends : q < p}) = k - 1
    IN  [k \in 1..Cardinality(ends) |->
            Slice(f, IF k = 1 THEN 1 ELSE End(k - 1) + 1, End(k))]

\* the first position from i on whose character is not in S
RECURSIVE SkipOver(_, _, _)
SkipOver(s, i, S) ==
    IF i <= Len(s) /\ s[i] \in S THEN SkipOver(s, i + 1, S) ELSE i

\* exactly eight hexadecimal digits at i, followed by white space
Hex8At(s, i) ==
    /\ i + 8 <= Len(s)
    /\ \A k \in i..(i + 7) : s[k] \in HexDigit
    /\ s[i + 8] \in Space

\* int(text, 10) and int(text, 16)
DigitValue(c) ==
    IF c \in {"A", "B", "C", "D", "E", "F"}
    THEN 10 + (CHOOSE k \in 0..5 : <<"A", "B", "C", "D", "E", "F">>[k + 1] = c)
    ELSE (CHOOSE k \in 0..15 : HexChars[k + 1] = c)
RECURSIVE IntOf(_, _)
IntOf(s, base) ==
    IF s = <<>> THEN 0
    ELSE IntOf(Slice(s, 1, Len(s)), base) * base + DigitValue(s[Len(s)])
Hex8Value(s) == <<IntOf(Slice(s, 1, 5), 16), IntOf(Slice(s, 5, 9), 16)>>

\* GOLD_LINE_RE (lines 11-13) matched against one line: the positions where
\* the groups start and end, or <<>> when the line does not match
GoldMatch(s) ==
    LET c1 == SkipOver(s, 1, Space)
        c2 == SkipOver(s, c1, DecDigit)
        p1 == SkipOver(s, c2, Space)
        i1 == SkipOver(s, p1 + 8, Space)
        x1 == SkipOver(s, i1 + 8, Space)
        x2 == SkipOver(s, x1 + 1, DecDigit)
        d1 == SkipOver(s, x2, Space)
        a1 == SkipOver(s, d1 + 8, Space)
    IN  IF /\ c2 > c1 /\ p1 > c2
           /\ Hex8At(s, p1) /\ Hex8At(s, i1)
           /\ x1 <= Len(s) /\ s[x1] = "x" /\ x2 > x1 + 1 /\ d1 > x2
           /\ Hex8At(s, d1)
        THEN <<[cycle |-> IntOf(Slice(s, c1, c2), 10),
                pc    |-> Hex8Value(Slice(s, p1, p1 + 8)),
                inst  |-> Hex8Value(Slice(s, i1, i1 + 8)),
                rd    |-> IntOf(Slice(s, x1 + 1, x2), 10),
                data  |-> Hex8Value(Slice(s, d1, d1 + 8)),
                asm   |-> Slice(s, a1, Len(s) + 1)]>>
        ELSE <<>>

\* lines 15-41 from the i-th line on, out the records kept so far
RECURSIVE parse_gold_from(_, _, _)
parse_gold_from(ls, i, out) ==
    IF i > Len(ls) THEN out
    ELSE IF ls[i] = <<>> \/ ls[i][1] = "#" \/ GoldMatch(ls[i]) = <<>>
    THEN parse_gold_from(ls, i + 1, out)
    ELSE parse_gold_from(ls, i + 1,
            Append(out, [idx |-> Len(out)] @@ GoldMatch(ls[i])[1]))

parse_gold_trace(f) == parse_gold_from(FileLines(f), 1, <<>>)

\* entries the simulator appends: the cycle counts from 0, pc and inst and
\* rd_data are 32-bit values, rd a register number, asm one line of text
TraceEntries ==
    [cycle : {0, 1234567}, pc : {ZERO}, inst : {ADDI(1, 0, 5)}, rd : {0, 31},
     rd_data : {ZERO, <<65535, 65535>>}, asm : {<<"n", "o", "p">>}]
    \cup
    [cycle : {3}, pc : {Z(4)}, inst : {ZERO, DataWord}, rd : {10},
     rd_data : {Z(5)},
     asm : {<<>>, <<"#", " ", "c">>, <<"l", "w", " ", "x", "1", "0">>,
            <<"1", " ", "0", "0", "0", "0", "0", "0", "0", "0">>}]
    \cup
    [cycle : {7}, pc : {<<65535, 65532>>}, inst : {<<57005, 48879>>}, rd : {1},
     rd_data : {<<0, 43980>>}, asm : {<<"j", "a", "l">>}]

TraceInit ==
    /\ call \in [fn : {"write_commit_trace"}, trace : SeqsUpTo(TraceEntries, MaxEntries)]
    /\ result = [state |-> "start"]

TraceUnchanged == UNCHANGED <<call, simVars, diffVars, redirVars, logVars>>

\* write_commit_trace(path, commit_trace)
WriteTrace ==
    /\ call.fn = "write_commit_trace" /\ result.state = "start"
    /\ result' = [state |-> "written", file |-> write_commit_trace(call.trace)]
    /\ TraceUnchanged

\* parse_gold_trace(path) on the file just written
ReadTrace ==
    /\ call.fn = "write_commit_trace" /\ result.state = "written"
    /\ result' = [state |-> "parsed", file |-> result.file,
                  out |-> parse_gold_trace(result.file)]
    /\ TraceUnchanged

InitTrace == TraceInit /\ SimIdle /\ DiffIdle /\ RedirIdle /\ LogIdle
NextTrace == WriteTrace \/ ReadTrace
SpecTrace == InitTrace /\ [][NextTrace]_vars

TraceParsed == call.fn = "write_commit_trace" /\ result.state = "parsed"

\* C31: the file written by write_commit_trace, read back by
\* parse_gold_trace, gives one record per commit entry, in the same order,
\* with the entry's cycle, pc, instruction word, rd and data; the header
\* lines, which start with '#', give no record.
C31_TraceRoundTrip ==
    TraceParsed =>
        /\ Len(result.out) = Len(call.trace)
        /\ \A k \in 1..Len(call.trace) :
              /\ result.out[k].idx = k - 1
              /\ result.out[k].cycle = call.trace[k].cycle
              /\ result.out[k].pc = call.trace[k].pc
              /\ result.out[k].inst = call.trace[k].inst
              /\ result.out[k].rd = call.trace[k].rd
              /\ result.out[k].data = call.trace[k].rd_data

\* a trace of two different entries, one with a cycle wider than the
\* column and one whose text starts with '#', has been read back
C31_Witness ==
    /\ TraceParsed /\ Len(call.trace) = 2
    /\ call.trace[1].cycle = 1234567 /\ call.trace[1].rd = 31
    /\ call.trace[1].rd_data = <<65535, 65535>>
    /\ call.trace[2].asm = <<"#", " ", "c">>
    /\ Len(FileLines(result.file)) = 5

-----------------------------------------------------------------------------
(***************************************************************************)
(* Termination of the simulator.  The loop of lines 693-863 is sequential  *)
(* code: an iteration that can run does run, and so does the return.       *)
(***************************************************************************)
LivePool == {ADDI(1, 0, 5), JAL(0, 0), JAL(0, -4), DataWord}

\* lines 303-318 and 681-688, on the images over LivePool
LiveInit ==
    /\ words \in SeqsFrom1(LivePool, MaxProg)
    /\ max_steps \in 0..MaxSteps
    /\ meta = HexMeta(words)
    /\ asm = HexAsm(words)
    /\ regs = [i \in 0..31 |-> ZERO]
    /\ mem = EmptyMem
    /\ pc = ZERO
    /\ cycle = 0
    /\ commit_trace = <<>>
    /\ sim_state = "running"
    /\ sim_error = ""
    /\ warned = FALSE
    /\ ret = None

InitLive == LiveInit /\ DiffIdle /\ RedirIdle /\ CallIdle /\ LogIdle
SpecLive == InitLive /\ [][Next]_vars /\ WF_vars(Next)

Terminated == sim_state \in {"returned", "raised"}

\* the trace holds an executed JAL x0,0
ReachedSelfJump == \E k \in 1..Len(commit_trace) : commit_trace[k].inst = JAL(0, 0)

TerminationCause ==
    /\ sim_state = "returned" =>
          /\ ~InImage(words, pc) \/ cycle >= max_steps
          /\ Len(ret[1]) <= max_steps
          /\ ReachedSelfJump => Len(ret[1]) = max_steps
    /\ sim_state = "raised" => sim_error # ""

\* C32: on every image and every budget max_steps >= 0 the simulator
\* terminates: it returns because the pc left the image or the budget is
\* used up, or it raises a fatal error; a returned trace has at most
\* max_steps entries, and exactly max_steps once a self-jump (JAL x0,0) has
\* been executed.
C32_TerminatesWithinBudget == []TerminationCause /\ <>Terminated

\* a run that executed a self-jump has returned with the whole budget used
C32_Witness ==
    /\ sim_state = "returned" /\ ReachedSelfJump
    /\ max_steps = MaxSteps /\ Len(ret[1]) = max_steps
    /\ commit_trace[1].inst # JAL(0, 0)

-----------------------------------------------------------------------------
\* C33: decode_word gives every branch and JAL word it decodes
\* target_pc = pc + offset, so a simulation started from a hex image never
\* raises 'Unresolved branch' or 'Unresolved JAL', whatever the image holds.
C33_HexTargetsResolved ==
    sim_state # "idle" =>
        /\ \A i \in 1..Len(words) :
              /\ meta[i].op \in BranchOps =>
                    AddZ(Z(4 * (i - 1)), imm_b(words[i])) = meta[i].target_pc
              /\ meta[i].op = "JAL" =>
                    AddZ(Z(4 * (i - 1)), imm_j(words[i])) = meta[i].target_pc
        /\ sim_error \notin {"Unresolved branch", "Unresolved JAL"}

\* a run from a hex image has executed a JAL and then a branch placed
\* after other words
C33_Witness ==
    /\ sim_state = "returned" /\ Len(commit_trace) >= 2
    /\ \E j, k \in 1..Len(commit_trace) :
          /\ j < k
          /\ meta[IdxOf(commit_trace[j].pc) + 1].op = "JAL"
          /\ meta[IdxOf(commit_trace[k].pc) + 1].op = "BEQ"
          /\ commit_trace[k].pc # ZERO

-----------------------------------------------------------------------------
\* the step about to run is a JALR whose rd is its rs1
JalrOnOwnBase ==
    /\ sim_state = "running" /\ LoopCond
    /\ CurMeta.op = "JALR" /\ CurMeta.rd = CurMeta.rs1

\* C34: a JALR with rd = rs1 jumps to the address computed from the value
\* the register held before the instruction, and the register then holds
\* pc + 4: the link write does not reach the jump target of its own
\* instruction.
C34_JalrReadsBaseBeforeLink ==
    [][JalrOnOwnBase =>
          LET base == r(regs, CurMeta.rs1)
              sum  == Add32(base, SignExt12(CurMeta.imm))
          IN  /\ pc' = <<sum[1], sum[2] - (sum[2] % 2)>>
              /\ regs'[CurMeta.rd] =
                    IF CurMeta.rd = 0 THEN ZERO ELSE Add32(pc, <<0, 4>>)]_vars

\* jalr x1, 0(x1) of prog_jalr_corner_cases has run: the jump went back to
\* the old x1 (RETURN1), not to the new link value
C34_Witness ==
    /\ words = JalrCornerImage.words
    /\ Len(commit_trace) >= 1
    /\ LET e == commit_trace[Len(commit_trace)]
       IN  /\ meta[IdxOf(e.pc) + 1].op = "JALR"
           /\ meta[IdxOf(e.pc) + 1].rd = 1 /\ meta[IdxOf(e.pc) + 1].rs1 = 1
           /\ regs[1] = Add32(e.pc, <<0, 4>>)
           /\ pc # regs[1]
           /\ pc = Z(12)

-----------------------------------------------------------------------------
(***************************************************************************)
(* The two copies of the simulator side by side.  Two kinds of call:       *)
(*   "one"  one ANDI/ORI/XORI on a register file holding x1, through the   *)
(*          loop body, the commit and the trace entry of each copy;        *)
(*   "run"  simulate_commit_trace of each copy on the same words and the   *)
(*          same metadata, from the reset state.                           *)
(***************************************************************************)
\* immediates as Meta carries them: sign-extended by decode_word, or the
\* raw argument of an Asm method (0xF00, 0xFFF)
VariantImms ==
    { Z(0), Z(1), Z(255), Z(2047), Z(-1), Z(-2048), Z(-256), Z(3840), Z(4095) }

\* words of the images both copies run; none decodes as DATA
VariantPool ==
    { ADDI(1, 0, 5), ADDI(1, 0, -1), ANDI(2, 1, 255), ANDI(2, 1, -256),
      ORI(2, 1, 15), ORI(2, 0, -1), XORI(2, 1, -1), ADD(3, 1, 2), JAL(0, 8) }

VariantInit ==
    /\ call \in [fn : {"one"}, op : {"ANDI", "ORI", "XORI"}, rd : {0, 1, 3},
                 a : OperandPool, imm : VariantImms]
           \cup [fn : {"run"}, words : SeqsFrom1(VariantPool, MaxProg),
                 max_steps : {MaxSteps}]
    /\ result = <<>>

VariantRegs == [i \in 0..31 |-> IF i = 1 THEN call.a ELSE ZERO]

\* one instruction through one copy
OneOf(variant) ==
    LET m  == Meta(call.op, call.rd, 1, 0, call.imm, None)
        o  == ExecOf(variant, m, ZERO, VariantRegs, EmptyMem)
        rf == Commit(VariantRegs, call.rd, o.rd_data)
    IN  [out |-> o, regs |-> rf,
         entry |-> CommitEntry(0, ZERO, ZERO, call.rd, o.rd_data, rf, <<>>)]

ExecBoth ==
    /\ call.fn = "one" /\ DOMAIN result = {}
    /\ result' = ("sw" :> OneOf("sw") @@ "test" :> OneOf("test"))
    /\ UNCHANGED <<call, simVars, diffVars, redirVars, logVars>>

\* the loop test of simulate_commit_trace (lines 693 and 541) in the state s
\* of one copy, and the end of the run by a raise
Looping(ws, budget, s) == s.err = "" /\ s.cycle < budget /\ InImage(ws, s.pc)

\* one iteration of the loop (lines 694-863 and 542-706)
loop_body(variant, ws, ms, s) ==
    LET m  == ms[IdxOf(s.pc) + 1]
        o  == ExecOf(variant, m, s.pc, s.regs, s.mem)
        rf == Commit(s.regs, m.rd, o.rd_data)
    IN  IF o.err # "" THEN [s EXCEPT !.err = o.err]
        ELSE [regs  |-> rf, mem |-> o.mem, pc |-> o.next_pc,
              cycle |-> s.cycle + 1, err |-> "",
              trace |-> Append(s.trace,
                 CommitEntry(s.cycle, s.pc, ws[IdxOf(s.pc) + 1],
                             m.rd, o.rd_data, rf, <<>>))]

\* the loop of simulate_commit_trace (lines 693-863 and 541-706) from the
\* state s of one copy
RECURSIVE simulate_from(_, _, _, _, _)
simulate_from(variant, ws, ms, budget, state) ==
    CHOOSE final \in
        { IF ~Looping(ws, budget, s) THEN s
          ELSE simulate_from(variant, ws, ms, budget,
                             loop_body(variant, ws, ms, s))
          : s \in {state} } : TRUE

\* lines 681-688: the reset state
Reset ==
    [regs |-> [i \in 0..31 |-> ZERO], mem |-> EmptyMem, pc |-> ZERO,
     cycle |-> 0, err |-> "", trace |-> <<>>]

\* lines 681-688: the reset state; the result is the state at the return
\* (trace and regs) or at the raise (err)
simulate_variant(variant, ws, ms, budget) ==
    simulate_from(variant, ws, ms, budget, Reset)

RunBoth ==
    /\ call.fn = "run" /\ DOMAIN result = {}
    /\ result' =
          ("sw" :> simulate_variant("sw", call.words, HexMeta(call.words),
                                    call.max_steps) @@
           "test" :> simulate_variant("test", call.words, HexMeta(call.words),
                                      call.max_steps))
    /\ UNCHANGED <<call, simVars, diffVars, redirVars, logVars>>

InitVariants == VariantInit /\ SimIdle /\ DiffIdle /\ RedirIdle /\ LogIdle
NextVariants == ExecBoth \/ RunBoth
SpecVariants == InitVariants /\ [][NextVariants]_vars

OneDone == call.fn = "one" /\ "sw" \in DOMAIN result
RunDone == call.fn = "run" /\ "sw" \in DOMAIN result

\* C35: for every rs1 value and every 12-bit immediate field, the ANDI, ORI
\* and XORI results of the two copies (one sign-extends the immediate, the
\* other masks it to 12 bits) agree on the low 12 bits of the committed
\* value.
C35_VariantsAgreeOnLow12 ==
    OneDone =>
        /\ result["sw"].out.err = "" /\ result["test"].out.err = ""
        /\ result["sw"].entry.rd_data[2] % 4096 = result["test"].entry.rd_data[2] % 4096
        /\ result["sw"].regs[call.rd][2] % 4096 = result["test"].regs[call.rd][2] % 4096

\* ANDI x3, x1, -256 on x1 = 0xFFFFFFFF: 0xFFFFFF00 from one copy, 0xF00
\* from the other
C35_Witness ==
    /\ OneDone /\ call.op = "ANDI" /\ call.rd = 3
    /\ call.a = <<65535, 65535>> /\ call.imm = Z(-256)
    /\ result["sw"].entry.rd_data = <<65535, 65280>>
    /\ result["test"].entry.rd_data = <<0, 3840>>

\* the (pc, rd, data) of the entries of a trace
Commits(tr) == [k \in 1..Len(tr) |-> <<tr[k].pc, tr[k].rd, tr[k].rd_data>>]

SameRun ==
    /\ result["sw"].err = result["test"].err
    /\ Commits(result["sw"].trace) = Commits(result["test"].trace)
    /\ result["sw"].regs = result["test"].regs

\* C36: the two copies of simulate_commit_trace are equivalent: on the same
\* words and decoded metadata without a DATA word they give the same commit
\* trace (pc, rd and data at every index) and the same final registers.
C36_VariantsEquivalent == RunDone => SameRun

\* an ANDI, ORI or XORI of the image whose immediate has bit 11 set
NegativeLogicImm ==
    \E i \in 1..Len(call.words) :
        LET m == HexMeta(call.words)[i]
        IN  m.op \in {"ANDI", "ORI", "XORI"} /\ m.imm[1] < 0

\* what does hold: the runs are the same on every image without such an
\* instruction
C36_EquivalentWithoutNegativeImm == (RunDone /\ ~NegativeLogicImm) => SameRun

\* ori x2, x0, -1 alone: x2 = 0xFFFFFFFF from one copy, 0xFFF from the other
C36_OriMinusOneDiffers ==
    /\ RunDone /\ call.words = <<ORI(2, 0, -1)>>
    /\ result["sw"].regs[2] = <<65535, 65535>>
    /\ result["test"].regs[2] = <<0, 4095>>
    /\ result["sw"].trace[1].rd_data # result["test"].trace[1].rd_data

(***************************************************************************)
(* The two ways a program reaches the simulator: main hands it the         *)
(* assembler's own metadata (lines 2534-2543); hex2trace hands it the hex  *)
(* file main wrote, re-decoded word by word (hex2trace.py lines 147-150,   *)
(* simulate_commit_trace_from_hex lines 302-318).                          *)
(***************************************************************************)
MaxStmts == 2    \* statements of a generated program body

\* statements of the generated bodies: every argument that the methods take
\* as a Python int, among them a shift amount of 32
StmtPool ==
    { <<"addi", 1, 0, 5>>, <<"addi", 1, 0, -1>>, <<"andi", 2, 1, 3840>>,
      <<"ori", 2, 1, -1>>, <<"lui", 3, 1048575>>, <<"auipc", 2, 1>>,
      <<"slli", 2, 1, 31>>, <<"slli", 2, 1, 32>>, <<"srli", 2, 1, 1>>,
      <<"srli", 2, 1, 32>>, <<"add", 3, 1, 1>>, <<"bne", 1, 0, "E">>,
      <<"jal", 1, "E">>, <<"jalr", 0, 1, 0>>, <<"label", "E">> }

\* the bodies of the test programs and the generated bodies
Bodies ==
    { prog_branch_loop, prog_jal_basic, prog_bitwise_patterns,
      prog_jalr_corner_cases } \cup SeqsFrom1(StmtPool, MaxStmts)

PathsInit ==
    /\ call \in [fn : {"paths"}, prog : Bodies]
    /\ result = <<>>

\* lines 2506-2509 then 169-178: each word is written as eight hex digits
\* of w & 0xFFFFFFFF and read back with int(line, 16) & 0xFFFFFFFF
load_hex_words(ws) == [i \in 1..Len(ws) |-> u32(ws[i])]

\* lines 302-318: the table the hex run decodes before its loop starts
hex_meta(ws) == HexMeta(load_hex_words(ws))

\* lines 2534-2543 and hex2trace.py lines 147-150 on the same program: the
\* program is assembled, finalized and padded, its words are written out,
\* and both runs stand before their first loop test
LoadBothPaths ==
    /\ call.fn = "paths" /\ DOMAIN result = {}
    /\ \E a \in {MainImage(Assemble(AsmNew, call.prog, 1))} :
          result' =
             IF a.err # "" THEN ("raised" :> a.err)
             ELSE ("words" :> a.words @@ "meta" :> a.meta @@
                   "hex_words" :> load_hex_words(a.words) @@
                   "hex_meta" :> hex_meta(a.words) @@
                   "main" :> Reset @@ "hex" :> Reset)
    /\ UNCHANGED <<call, simVars, diffVars, redirVars, logVars>>

MainLooping == Looping(result["words"], ProgSteps, result["main"])
HexLooping  == Looping(result["hex_words"], ProgSteps, result["hex"])

\* one iteration of each run that has not ended
StepBothPaths ==
    /\ call.fn = "paths" /\ "main" \in DOMAIN result
    /\ MainLooping \/ HexLooping
    /\ result' =
          [result EXCEPT
             !["main"] = IF MainLooping
                         THEN loop_body("sw", result["words"], result["meta"], @)
                         ELSE @,
             !["hex"]  = IF HexLooping
                         THEN loop_body("sw", result["hex_words"],
                                        result["hex_meta"], @)
                         ELSE @]
    /\ UNCHANGED <<call, simVars, diffVars, redirVars, logVars>>

InitPaths == PathsInit /\ SimIdle /\ DiffIdle /\ RedirIdle /\ LogIdle
NextPaths == LoadBothPaths \/ StepBothPaths
SpecPaths == InitPaths /\ [][NextPaths]_vars

\* both runs have ended
PathsDone ==
    call.fn = "paths" /\ "main" \in DOMAIN result /\ ~MainLooping /\ ~HexLooping

\* both runs return, with the same (pc, rd, data) commits and registers
SamePaths ==
    /\ result["main"].err = "" /\ result["hex"].err = ""
    /\ Commits(result["main"].trace) = Commits(result["hex"].trace)
    /\ result["main"].regs = result["hex"].regs

\* C37: for any program built through the Asm methods and finalized, the
\* run from the assembler's metadata and the run from the re-decoded hex
\* words give the same (pc, rd, data) commits and the same final registers.
C37_PathsAgree == PathsDone => SamePaths

\* a statement whose argument the encoding cannot hold: a shift amount of
\* 32 or more sets bit 25 of the SRLI word
ShiftOutOfRange(s) == s[1] \in {"slli", "srli"} /\ ~(s[4] \in 0..31)

\* the two runs do agree on every body whose shift amounts are 0..31
C37_AgreeOnEncodableShifts ==
    (PathsDone /\ \A k \in 1..Len(call.prog) : ~ShiftOutOfRange(call.prog[k]))
        => SamePaths

\* srli x2, x1, 32: the metadata run commits x2 = x1 >> 0 and goes on, the
\* run from the hex file stops at the word it decodes as data
C37_Srli32Diverges ==
    /\ PathsDone /\ call.prog = << <<"srli", 2, 1, 32>> >>
    /\ result["main"].err = "" /\ Len(result["main"].trace) = 1 + PadWords
    /\ result["hex"].err # "" /\ result["hex"].trace = <<>>

(***************************************************************************)
(* The counters of check_log's summary.                                    *)
(***************************************************************************)
\* the lines among the first n that start with "PC="
PCPrefixed(n) == Cardinality({ k \in 1..n : trace[k].pcline })

\* the lines among the first n that lines 248-251 pass over: every token
\* parsed and the pc is in the image, at a word decode() does not know
IgnoredLines(n) ==
    Cardinality({ k \in 1..n :
        /\ Parsed(trace[k])
        /\ trace[k].PC[2] \in DOMAIN mem_hex
        /\ decode(mem_hex[trace[k].PC[2]]) = <<>> })

Summarised == cl_state = "done"

Diverged == diff_state = "done" /\ diff_i # NoneI

\* the window is a run of at most 2 * radius + 1 consecutive golden indices
WindowBounded ==
    /\ Cardinality(window) <= 2 * radius + 1
    /\ window \subseteq 0..(Len(gold) - 1)
    /\ \A a \in window, b \in window : \A k \in a..b : k \in window

\* C40: whenever a divergence is reported at index i (mismatch, hardware
\* ended early, or hardware longer than golden) the printed window covers
\* at most 2 * radius + 1 consecutive golden indices and includes i, for
\* every radius >= 0.
C40_WindowHoldsIndex ==
    Diverged => (WindowBounded /\ diff_i[1] \in window)

\* what the code does give: the bound always; the index itself when the
\* golden sequence has it and the window is centred on it or, centred one
\* below for the ended-early report, reaches it
C40_WindowHoldsIndexWhenCentred ==
    Diverged =>
        /\ WindowBounded
        /\ (diff_i[1] \in window) <=>
              /\ diff_i[1] < Len(gold)
              /\ report = "ended_early" => (radius >= 1 \/ diff_i[1] = 0)

\* hardware longer than golden, radius 0: the reported index is Len(gold)
\* and nothing is printed as context
C40_EmptyWindowOnLongerSim ==
    /\ Diverged /\ report = "mismatch" /\ radius = 0
    /\ Len(gold) = 1 /\ Len(sim) = 2 /\ diff_i = Some(1)
    /\ window = {}

\* hardware ended early after one commit, radius 0: the window is the last
\* common index, one below the reported one
C40_WindowBelowIndexOnEarlyEnd ==
    /\ Diverged /\ report = "ended_early" /\ radius = 0
    /\ Len(gold) = 2 /\ Len(sim) = 1 /\ diff_i = Some(1)
    /\ window = {0}

(***************************************************************************)
(* The frame of one simulator step: what an iteration of the loop of       *)
(* simulate_commit_trace leaves alone.                                     *)
(***************************************************************************)
\* images that set x1 to 0xfffffffe and then store, load, branch and jump:
\* the stores of width 2 and 4 at 1(x1) and 0(x1) wrap around 2^32; the
\* data word ends a run by RuntimeError
FramePool ==
    { ADDI(1, 0, -2), ADDI(0, 0, 5), SB(1, 1, 0), SH(1, 1, 1), SW(1, 1, 0),
      LW(3, 1, 0), BEQ(1, 0, 8), BNE(1, 0, 8), JAL(2, 8), ZERO, DataWord }

\* lines 303-318 and 681-688 on the images over FramePool
FrameInit ==
    /\ words \in SeqsFrom1(FramePool, MaxProg)
    /\ max_steps \in 0..MaxSteps
    /\ meta = HexMeta(words)
    /\ asm = HexAsm(words)
    /\ regs = [i \in 0..31 |-> ZERO]
    /\ mem = EmptyMem
    /\ pc = ZERO
    /\ cycle = 0
    /\ commit_trace = <<>>
    /\ sim_state = "running"
    /\ sim_error = ""
    /\ warned = FALSE
    /\ ret = None

InitFrame == FrameInit /\ DiffIdle /\ RedirIdle /\ CallIdle /\ LogIdle
SpecFrame == InitFrame /\ [][Next]_vars

StoreOps == {"SB", "SH", "SW"}

\* the bytes a store of the current instruction may touch: addr..addr+n-1
\* (mod 2^32) with addr = u32(r(rs1) + sext(imm, 12))
StoreBytes ==
    { u32(AddZ(AddZ(r(regs, CurMeta.rs1), sext(CurMeta.imm, 12)), Z(k))) :
        k \in 0..(StoreWidth(CurMeta.op) - 1) }

\* the iteration that commits is taken in this step
Commits1 == sim_state = "running" /\ cycle' = cycle + 1

\* C39: a simulator step changes at most one register, and only rd; store,
\* branch and NOP steps leave the register file unchanged; a non-store step
\* leaves memory unchanged, and a store of width n changes only the n bytes
\* at addr..addr+n-1 (mod 2^32).
C39_StepFrame ==
    [][Commits1 =>
          /\ \A i \in 0..31 : regs'[i] # regs[i] => i = CurMeta.rd
          /\ CurMeta.op \in StoreOps \cup BranchOps \cup {"NOP"} => regs' = regs
          /\ CurMeta.op \notin StoreOps => mem' = mem
          /\ CurMeta.op \in StoreOps =>
                /\ DOMAIN mem' = DOMAIN mem \cup StoreBytes
                /\ \A a \in DOMAIN mem : a \notin StoreBytes => mem'[a] = mem[a]]_vars

\* after addi x1,x0,-2 and sw x1,0(x1): four bytes written, two of them
\* below 2^32 and two at addresses 0 and 1, and only x1 is non-zero
C39_Witness ==
    /\ Len(words) >= 2 /\ words[1] = ADDI(1, 0, -2) /\ words[2] = SW(1, 1, 0)
    /\ cycle = 2 /\ sim_state = "running"
    /\ DOMAIN mem = { <<65535, 65534>>, <<65535, 65535>>, ZERO, Z(1) }
    /\ mem[<<65535, 65534>>] = 254 /\ mem[Z(1)] = 255
    /\ \A i \in 0..31 : i # 1 => regs[i] = ZERO

=============================================================================
